---- MODULE Spec2Model ----
(***************************************************************************)
(* State-machine model of the call-triggered audio orchestration core of   *)
(* aicallrouting:                                                          *)
(*   - WebSocketManager           (src/utils/websocketManager.ts)          *)
(*   - the streaming orchestrator (src/unnamed/part_000: push listener,    *)
(*     watchdog poll, startAIWithAudioMode, startAIProcessing)             *)
(*   - the batched orchestrator   (src/App.tsx: poll, startAIProcessing,   *)
(*     processLoop, processAudioChunk) with the n8n turn processor         *)
(*     (src/unnamed/part_005: sendGreeting, sendToN8n)                     *)
(*   - the GSM orchestrator       (src/App_GSM_broken.tsx) with            *)
(*     TelephonyManager (src/unnamed/part_005) and AudioBridge             *)
(*     (src/unnamed/part_004).                                             *)
(* Every await of the source that suspends is a step boundary: the code    *)
(* between two of them runs atomically (one JavaScript thread), and other  *)
(* handlers may run between the steps.                                     *)
(***************************************************************************)
EXTENDS Integers, Sequences, FiniteSets, TLC

\* ---------------------------------------------------------------- bounds
MaxLive == 2           \* WebSocket objects not yet closed at one time
MaxSid == 2            \* distinct session ids handed to connect()
MaxTimers == 1         \* reconnect timers pending at once
MaxFails == 6          \* consecutive failed attempts counted in one chain
MaxAns == 2            \* auto-answer timers or commands outstanding at once
MaxCalls == 1          \* calls the phone receives
MaxDrops == 1          \* open connections dropped by the peer or the network
MaxConv == 2           \* transcriptions the backend sends
MaxHist == 7           \* turns appended to the batched app's history
MaxNow == 6            \* minutes the clock runs
MaxRefused == 1        \* refused connects in a row while a call is handled
MaxTurns == 2          \* chunks processed (batched mode)
MaxDuration == 12      \* seconds processLoop counts (batched mode)
CountCap == 2          \* history counters saturate here
MaxBufLen == 4         \* bytes in a buffer given to the base64 helpers
MaxQueue == 1          \* chunks waiting in the manager's audio queue
MaxQTimers == 2        \* pending 50 ms timers of the audio queue
MaxChunks == 4         \* chunks given to the manager in one run
MaxLlmCalls == 2       \* generateResponse calls awaiting their backend
MaxMsgs == 1           \* messages given to handleMessage
MaxInject == 1         \* writePCMChunk calls in progress at once

\* ------------------------------------------------------ program constants
maxReconnectAttempts == 5
CHUNK_INTERVAL_SECONDS == 5
HistoryLimit == 6      \* [...prev.slice(-5), turn]: the streaming app's history
SESSION_DURATION == 2  \* minutes
LlmHistoryLimit == 10  \* conversationHistory.slice(-10)

Slots == 1..MaxLive
Sids == 1..MaxSid
NoSock == 0            \* this.ws === null
DeadSock == -1         \* this.ws holds a socket whose close event was delivered
NoSid == 0             \* this.sessionId === null
TimerRecs == [sid : Sids, fails : 0..MaxFails]

\* ======================================================= WebSocketManager
VARIABLES
    ws,                 \* this.ws: slot of the socket held, NoSock or DeadSock
    socks,              \* the WebSocket objects not yet closed:
                        \* slot -> [st, sid, orch, fails]
                        \*   st   "none" (free slot), "connecting", "open",
                        \*        "failed" (error delivered, close event due),
                        \*        "closing" (close() called, close event due)
                        \*   sid  the sessionId its handlers closed over
                        \*   orch its connect() promise is the one in connRes
                        \*   fails history: consecutive failed attempts that
                        \*        led to this attempt (0 for the first one)
    wsSessionId,        \* this.sessionId
    isConnected,        \* this.isConnected
    reconnectAttempts,  \* this.reconnectAttempts
    timers,             \* pending reconnect timers (setTimeout of onclose):
                        \* a set of [sid, fails], sid the session id the
                        \* callback closed over, fails as in socks
    connRes,            \* promise of the orchestrator's latest connect():
                        \* "none", "pending", "ok" (resolve(true)),
                        \* "err" (reject)
    manualClosed,       \* history: disconnect() returned and the orchestrator
                        \* has not called connect() since
    drops,              \* history: open connections dropped so far
    audioQueue,         \* this.audioQueue: the chunks waiting; where chunks
                        \* are told apart, a chunk is the number of its
                        \* capture (AudioChunk.timestamp)
    isProcessing,       \* this.isProcessing
    queueTimers,        \* pending 50 ms timers of processAudioQueue
    chunkCtr,           \* history: chunks given to the manager so far
    handed,             \* history: the calls of sendAudioChunk in order, each
                        \* [chunk, via, tx]: via "queue" (processAudioQueue)
                        \* or "direct", tx whether ws.send transmitted it
    cutoff              \* history: chunkCtr when disconnect() last ran

wsVars == <<ws, socks, wsSessionId, isConnected, reconnectAttempts,
            timers, connRes, manualClosed, drops, audioQueue, isProcessing,
            queueTimers, chunkCtr, handed, cutoff>>

NoSocket == [st |-> "none", sid |-> NoSid, orch |-> FALSE, fails |-> 0]

WSInit ==
    /\ ws = NoSock
    /\ socks = [s \in Slots |-> NoSocket]
    /\ wsSessionId = NoSid
    /\ isConnected = FALSE
    /\ reconnectAttempts = 0
    /\ timers = {}
    /\ connRes = "none"
    /\ manualClosed = FALSE
    /\ drops = 0
    /\ audioQueue = <<>>
    /\ isProcessing = FALSE
    /\ queueTimers = 0
    /\ chunkCtr = 0
    /\ handed = <<>>
    /\ cutoff = 0

\* ========================================== telephony and orchestrator state
VARIABLES
    tel,                \* the platform's call state: 0 idle, 1 ringing,
                        \* 2 active
    callState,          \* the orchestrator's callState (useState)
    isProcessingRef,    \* the in-progress flag
    isSpeakingRef,      \* the speaking flag
    answeringRef,       \* the answering flag
    conversation,       \* conversation history: sequence of roles
    sidCtr,             \* the session id generated last
    calls,              \* history: calls received so far
    starts,             \* history: session starts since the call began ringing
    answerCmds          \* history: answer commands issued since the last
                        \* non-ringing notification

orchVars == <<tel, callState, isProcessingRef, isSpeakingRef, answeringRef,
              conversation, sidCtr, calls, starts, answerCmds>>

OrchInit ==
    /\ tel = 0
    /\ callState = "idle"
    /\ isProcessingRef = FALSE
    /\ isSpeakingRef = FALSE
    /\ answeringRef = FALSE
    /\ conversation = <<>>
    /\ sidCtr = MaxSid
    /\ calls = 0
    /\ starts = 0
    /\ answerCmds = 0

Bump(n) == IF n < CountCap THEN n + 1 ELSE n

\* prev.slice(-n)
LastN(seq, n) ==
    IF Len(seq) <= n THEN seq ELSE SubSeq(seq, Len(seq) - n + 1, Len(seq))

\* `session_${Date.now()}`: an id different from the one generated last
NextSid == (sidCtr % MaxSid) + 1

\* =========================== streaming orchestrator (src/unnamed/part_000)
VARIABLES
    ansTimers,          \* pending 500 ms auto-answer timers
    ansSent,            \* answerIncomingCall() commands awaiting their result
    pollVal,            \* watchdog poll: <<>>, or <<s>> with s the state that
                        \* getTelephonyState returned to a callback that has
                        \* not continued yet
    startPc,            \* the session-start sequence: "none", "pcm" (awaits
                        \* startPCMStream), "settle" (500 ms), "connect" (awaits
                        \* websocketManager.connect), "record" (awaits
                        \* startRecordingPCM)
    tdPc,               \* the teardown sequence: "none", "stopStream" (awaits
                        \* stopPCMStream)
    isStreaming,        \* CallAudioModule.isStreaming (playback track)
    isRecording,        \* CallAudioModule.isRecording (native PCM capture)
    audioSub,           \* an onAudioChunk listener is registered
    callbacksSet,       \* websocketManager.setCallbacks was called
    injecting,          \* CallAudioModule.writePCMChunk calls of
                        \* onAudioResponse not yet settled
    txWhileInjecting    \* history: a captured frame was sent while a
                        \* writePCMChunk call on the started playback
                        \* stream was in progress

strVars == <<ansTimers, ansSent, pollVal, startPc, tdPc, isStreaming,
             isRecording, audioSub, callbacksSet, injecting,
             txWhileInjecting>>

StrInit ==
    /\ ansTimers = 0
    /\ ansSent = 0
    /\ pollVal = <<>>
    /\ startPc = "none"
    /\ tdPc = "none"
    /\ isStreaming = FALSE
    /\ isRecording = FALSE
    /\ audioSub = FALSE
    /\ callbacksSet = FALSE
    /\ injecting = 0
    /\ txWhileInjecting = FALSE

\* ============================== batched orchestrator (src/App.tsx), state
VARIABLES
    recordingRef,       \* recordingRef.current: "null", "live" (the running
                        \* recording) or "dead" (a recording already stopped)
    capture,            \* an expo recording is running
    hasGreetedRef,      \* hasGreetedRef.current
    bStartPc,           \* startAIProcessing: "none", "stopRec" (awaits
                        \* stopRecording), "mode" (awaits setAudioModeAsync),
                        \* "greetFetch" (sendGreeting awaits fetch), "greetPlay"
                        \* (greeting audio plays), "recStart" (awaits
                        \* prepareToRecordAsync/startAsync)
    bTdPc,              \* idle branch of the poll: "none", "stopRec" (awaits
                        \* stopRecording)
    loopPc,             \* processLoop: "none", "sleep" (1 s timer and telephony
                        \* query), "status" (getStatusAsync/stopAndUnloadAsync),
                        \* "chunk" (awaits processAudioChunk), "tel2" (second
                        \* telephony query), "rec" (new recording starts),
                        \* "cleanStop" (cleanup awaits stopRecording)
    duration,           \* processLoop's duration
    turnPc,             \* processAudioChunk and the main flow of sendToN8n:
                        \* "none", "stt" (awaits transcribeWithWhisper), "main"
                        \* (awaits the main fetch), "mainPlay" (main audio
                        \* plays), "waitInterim" (awaits interimPromise)
    interimPc,          \* interimPromise of sendToN8n: "none", "fetch", "play"
                        \* (interim audio plays), "playMain" (it plays the main
                        \* audio), "done" (settled)
    interimFinished,    \* sendToN8n's interimFinished
    mainAudioData,      \* sendToN8n's mainAudioData is set (non-empty audio)
    mainPlayed,         \* history: the main audio of this turn was played
    teardowns,          \* history: teardown sequences run since the session
                        \* was started
    turns,              \* history: chunks handed to processAudioChunk
    faults,             \* history: a telephony query or the restart of a
                        \* recording has failed
    spoke,              \* history: the speaking flag was raised since
                        \* processLoop started
    currentSound,       \* n8nProcessor's currentSound: "null" or "loaded" (the
                        \* expo sound of the fallback playback)
    sessionId,          \* n8nProcessor's sessionId: NoSid (null) or the time at
                        \* which the id was generated, plus one
    sessionExpiry,      \* n8nProcessor's sessionExpiry (0 with a null id)
    now,                \* Date.now(), in minutes
    reqSids             \* history: the session ids carried by the requests
                        \* sent since the last resetSession()

\* ------- LLM stage of the batched pipeline (src/utils/llmProcessor.ts), state
VARIABLES
    conversationHistory, \* conversationHistory: the roles of its messages
    llmApi,             \* the backend the keys of the build select: "gemini",
                        \* "groq", or "none" (both keys empty)
    llmPending          \* generateResponse calls awaiting their backend

recVars == <<recordingRef, capture>>
turnVars == <<turnPc, interimPc, interimFinished, mainAudioData, mainPlayed>>
batVars == <<recVars, hasGreetedRef, bStartPc, bTdPc, loopPc, duration,
             turnVars, teardowns, turns, faults, spoke, currentSound,
             sessionId, sessionExpiry, now, reqSids, conversationHistory,
             llmApi, llmPending>>

BatInit ==
    /\ recordingRef = "null"
    /\ capture = FALSE
    /\ hasGreetedRef = FALSE
    /\ bStartPc = "none"
    /\ bTdPc = "none"
    /\ loopPc = "none"
    /\ duration = 0
    /\ turnPc = "none"
    /\ interimPc = "none"
    /\ interimFinished = FALSE
    /\ mainAudioData = FALSE
    /\ mainPlayed = FALSE
    /\ teardowns = 0
    /\ turns = 0
    /\ faults = FALSE
    /\ spoke = FALSE
    /\ currentSound = "null"
    /\ sessionId = NoSid
    /\ sessionExpiry = 0
    /\ now = 0
    /\ reqSids = {}
    /\ conversationHistory = <<>>
    /\ llmPending = 0

\* ================= GSM orchestrator (src/App_GSM_broken.tsx), state
VARIABLES
    currentCall,        \* TelephonyManager.currentCall is set
    bridgeActive,       \* AudioBridge.isActive
    gPc,                \* onCallConnected: "none", "connect" (awaits
                        \* websocketManager.connect), "bridgeConnect"
                        \* (startBridging awaits websocketManager.connect)
    gAnsSent,           \* endpoint.answerCall commands awaiting their result
    mounted,            \* the App component is mounted (useEffect's mounted)
    hangupCmds,         \* history: endpoint.hangupCall commands issued
    escaped,            \* history: a rejection left onCallConnected uncaught
    stopPc              \* stopBridging: "none", "stopCapture" (awaits
                        \* AudioBridgeModule.stopCapture)

gsmVars == <<currentCall, bridgeActive, gPc, gAnsSent, mounted, hangupCmds,
             escaped, stopPc>>

GsmInit ==
    /\ currentCall = FALSE
    /\ bridgeActive = FALSE
    /\ gPc = "none"
    /\ gAnsSent = 0
    /\ mounted = TRUE
    /\ hangupCmds = 0
    /\ escaped = FALSE
    /\ stopPc = "none"

\* ============ base64 helpers (src/utils/websocketManager.ts), state
VARIABLES
    buffer,             \* the ArrayBuffer given to arrayBufferToBase64
    b64Pc,              \* "idle", "encoded" (base64 holds its text),
                        \* "decoded" (bytes holds the decoded buffer)
    base64,             \* the base64 text, a sequence of characters
    bytes               \* the buffer base64ToArrayBuffer returned

b64Vars == <<buffer, b64Pc, base64, bytes>>

B64Init ==
    /\ buffer = <<>>
    /\ b64Pc = "idle"
    /\ base64 = <<>>
    /\ bytes = <<>>

\* ====== messages of the backend (WebSocketManager.handleMessage), state
VARIABLES
    cbLog,              \* history: the callbacks handleMessage has invoked
    lastMsg,            \* history: the last message given to handleMessage
    msgs                \* history: messages given to handleMessage

msgVars == <<cbLog, lastMsg, msgs>>

MsgInit ==
    /\ cbLog = <<>>
    /\ lastMsg = "none"
    /\ msgs = 0

vars == <<wsVars, orchVars, strVars, batVars, gsmVars, b64Vars, msgVars>>

Init ==
    /\ WSInit /\ OrchInit /\ StrInit /\ BatInit /\ GsmInit /\ B64Init /\ MsgInit
    /\ llmApi = "none"

\* What the manager's own handlers leave alone.
notWS == <<orchVars, strVars, batVars, gsmVars, b64Vars, msgVars>>

\* ------------------------------------------------------- manager, continued
FreeSlots == {s \in Slots : socks[s].st = "none"}
Connecting == {s \in Slots : socks[s].st = "connecting"}
Live == {s \in Slots : socks[s].st \in {"connecting", "open"}}
NewSlot == CHOOSE s \in FreeSlots : \A r \in FreeSlots : s <= r

\* connect(sessionId): this.sessionId = sessionId; this.ws = new WebSocket(URL).
\* The socket previously held in this.ws is neither closed nor detached.
ConnectBody(sid, byOrch, fails) ==
    /\ FreeSlots # {}
    /\ socks' = [s \in Slots |->
                    IF s = NewSlot
                      THEN [st |-> "connecting", sid |-> sid, orch |-> byOrch,
                            fails |-> fails]
                      ELSE [socks[s] EXCEPT !.orch = @ /\ ~byOrch]]
    /\ ws' = NewSlot
    /\ wsSessionId' = sid

\* connect(sessionId) called by the orchestrator, which holds the returned
\* promise.
Connect(sid) ==
    /\ ConnectBody(sid, TRUE, 0)
    /\ connRes' = "pending"
    /\ manualClosed' = FALSE
    /\ UNCHANGED <<isConnected, reconnectAttempts, timers, drops, audioQueue,
                   isProcessing, queueTimers,
                   chunkCtr, handed, cutoff>>

\* ws.onopen of socket s: resolve(true).
SocketOpen(s) ==
    /\ socks[s].st = "connecting"
    /\ socks' = [socks EXCEPT ![s].st = "open", ![s].fails = 0]
    /\ isConnected' = TRUE
    /\ reconnectAttempts' = 0
    /\ connRes' = IF socks[s].orch /\ connRes = "pending" THEN "ok" ELSE connRes
    /\ UNCHANGED <<ws, wsSessionId, timers, manualClosed, drops, audioQueue,
                   isProcessing, queueTimers,
                   chunkCtr, handed, cutoff>>
    /\ UNCHANGED notWS

\* ws.onerror of socket s while it connects: onErrorCallback, reject(error).
\* The platform delivers the close event of the failed socket afterwards.
SocketError(s) ==
    /\ socks[s].st = "connecting"
    /\ socks[s].fails < MaxFails
    /\ socks' = [socks EXCEPT ![s].st = "failed", ![s].fails = @ + 1]
    /\ connRes' = IF socks[s].orch /\ connRes = "pending" THEN "err" ELSE connRes
    /\ UNCHANGED <<ws, wsSessionId, isConnected, reconnectAttempts,
                   timers, manualClosed, drops, audioQueue, isProcessing,
                   queueTimers, chunkCtr, handed, cutoff>>
    /\ UNCHANGED notWS

\* The same, for at most MaxRefused refusals in a row.
SocketRefused(s) ==
    /\ socks[s].fails < MaxRefused
    /\ SocketError(s)

\* An onclose that reconnects without consulting the attempt counter.
ShouldReconnectAlways == TRUE

\* The reconnect decision of ws.onclose.
ShouldReconnect == reconnectAttempts < maxReconnectAttempts

\* ws.onclose of socket s: the close event of a failed socket, of a socket
\* closed by disconnect(), or of an open socket the peer or network dropped.
SocketClose(s) ==
    /\ socks[s].st \in {"failed", "closing", "open"}
    /\ IF socks[s].st = "open"
         THEN drops < MaxDrops /\ drops' = drops + 1
         ELSE UNCHANGED drops
    /\ socks' = [socks EXCEPT ![s] = NoSocket]
    /\ ws' = IF ws = s THEN DeadSock ELSE ws
    /\ isConnected' = FALSE
    /\ IF ShouldReconnect
         THEN /\ Cardinality(timers) < MaxTimers
              /\ reconnectAttempts' = reconnectAttempts + 1
              /\ timers' = timers \cup {[sid |-> socks[s].sid,
                                          fails |-> socks[s].fails]}
         ELSE UNCHANGED <<reconnectAttempts, timers>>
    /\ UNCHANGED <<wsSessionId, connRes, manualClosed, audioQueue,
                   isProcessing, queueTimers,
                   chunkCtr, handed, cutoff>>
    /\ UNCHANGED notWS

\* The setTimeout callback of onclose: this.connect(sessionId), not awaited.
ReconnectTimer(t) ==
    /\ t \in timers
    /\ timers' = timers \ {t}
    /\ ConnectBody(t.sid, FALSE, t.fails)
    /\ UNCHANGED <<isConnected, reconnectAttempts, connRes, manualClosed,
                   drops, audioQueue, isProcessing, queueTimers,
                   chunkCtr, handed, cutoff>>
    /\ UNCHANGED notWS

\* disconnect().
Disconnect ==
    /\ IF ws # NoSock
         THEN /\ reconnectAttempts' = maxReconnectAttempts
              /\ socks' = [s \in Slots |->
                              IF s = ws /\ socks[s].st \in {"connecting", "open"}
                                THEN [socks[s] EXCEPT !.st = "closing"]
                                ELSE socks[s]]
              /\ ws' = NoSock
         ELSE UNCHANGED <<reconnectAttempts, socks, ws>>
    /\ isConnected' = FALSE
    /\ wsSessionId' = NoSid
    /\ audioQueue' = <<>>
    /\ cutoff' = chunkCtr
    /\ isProcessing' = FALSE
    /\ manualClosed' = TRUE
    /\ UNCHANGED <<timers, connRes, drops, queueTimers, chunkCtr, handed>>

\* The orchestrator calls connect(sessionId) and disconnect() at any time.
CallConnect(sid) == Connect(sid) /\ UNCHANGED notWS

CallDisconnect == Disconnect /\ UNCHANGED notWS

\* isConnectionActive()
IsConnectionActive ==
    isConnected /\ ws \in Slots /\ socks[ws].st = "open"

\* ---- the telephony stack (external)
TelRing ==
    /\ tel = 0
    /\ calls < MaxCalls
    /\ tel' = 1
    /\ calls' = calls + 1
    /\ starts' = 0
    /\ UNCHANGED <<wsVars, callState, isProcessingRef, isSpeakingRef,
                   answeringRef, conversation, sidCtr, answerCmds, strVars,
                   batVars, gsmVars, b64Vars, msgVars>>

\* The call is picked up by hand.
TelPickup ==
    /\ tel = 1
    /\ tel' = 2
    /\ UNCHANGED <<wsVars, callState, isProcessingRef, isSpeakingRef,
                   answeringRef, conversation, sidCtr, calls, starts,
                   answerCmds, strVars, batVars, gsmVars, b64Vars, msgVars>>

\* The caller hangs up (or stops ringing).
TelHangup ==
    /\ tel \in {1, 2}
    /\ tel' = 0
    /\ UNCHANGED <<wsVars, callState, isProcessingRef, isSpeakingRef,
                   answeringRef, conversation, sidCtr, calls, starts,
                   answerCmds, strVars, batVars, gsmVars, b64Vars, msgVars>>

\* ---- startAIWithAudioMode, up to its first await. A second start sequence
\* is not begun while one is still awaiting (startPc is a single position).
StartAIWithAudioMode ==
    /\ ~isProcessingRef
    /\ startPc = "none"
    /\ isProcessingRef' = TRUE
    /\ callState' = "active"
    /\ startPc' = "pcm"
    /\ starts' = Bump(starts)

\* The guarded call sites: if (!isProcessingRef.current) startAIWithAudioMode().
MayStart == isProcessingRef \/ startPc = "none"

\* ---- teardown of the idle branches, up to the await of stopPCMStream.
TeardownBegin ==
    /\ isProcessingRef
    /\ tdPc = "none"
    /\ isProcessingRef' = FALSE
    /\ tdPc' = "stopStream"

\* ---- push listener onCallStateChanged, state === 1 (RINGING)
PushRinging ==
    /\ tel = 1
    /\ callState' = "incoming"
    /\ IF ~answeringRef
         THEN /\ ansTimers + ansSent < MaxAns
              /\ answeringRef' = TRUE
              /\ ansTimers' = ansTimers + 1
         ELSE UNCHANGED <<answeringRef, ansTimers>>
    /\ UNCHANGED <<wsVars, tel, isProcessingRef, isSpeakingRef, conversation,
                   sidCtr, calls, starts, answerCmds, ansSent, pollVal,
                   startPc, tdPc, isStreaming, isRecording, audioSub,
                   callbacksSet, injecting, txWhileInjecting, batVars,
                   gsmVars, b64Vars, msgVars>>

\* The setTimeout callback of the RINGING branch: answerIncomingCall() is sent.
AnswerTimer ==
    /\ ansTimers > 0
    /\ ansTimers' = ansTimers - 1
    /\ ansSent' = ansSent + 1
    /\ answerCmds' = Bump(answerCmds)
    /\ UNCHANGED <<wsVars, tel, callState, isProcessingRef, isSpeakingRef,
                   answeringRef, conversation, sidCtr, calls, starts, pollVal,
                   startPc, tdPc, isStreaming, isRecording, audioSub,
                   callbacksSet, injecting, txWhileInjecting, batVars,
                   gsmVars, b64Vars, msgVars>>

\* answerIncomingCall() resolves: a ringing call becomes active.
AnswerOk ==
    /\ ansSent > 0
    /\ ansSent' = ansSent - 1
    /\ tel' = IF tel = 1 THEN 2 ELSE tel
    /\ UNCHANGED <<wsVars, callState, isProcessingRef, isSpeakingRef,
                   answeringRef, conversation, sidCtr, calls, starts,
                   answerCmds, ansTimers, pollVal, startPc, tdPc, isStreaming,
                   isRecording, audioSub, callbacksSet, injecting,
                   txWhileInjecting, batVars, gsmVars, b64Vars, msgVars>>

\* A variant of AnswerFail in which a rejected answer command gives the call
\* up: the call state returns to idle and the answering flag stays set.
AnswerFailFatal ==
    /\ ansSent > 0
    /\ ansSent' = ansSent - 1
    /\ callState' = "idle"
    /\ UNCHANGED <<wsVars, tel, isProcessingRef, isSpeakingRef, answeringRef,
                   conversation, sidCtr, calls, starts, answerCmds, ansTimers,
                   pollVal, startPc, tdPc, isStreaming, isRecording, audioSub,
                   callbacksSet, injecting, txWhileInjecting, batVars,
                   gsmVars, b64Vars, msgVars>>

\* answerIncomingCall() rejects: catch resets the answering flag.
AnswerFail ==
    /\ ansSent > 0
    /\ ansSent' = ansSent - 1
    /\ answeringRef' = FALSE
    /\ UNCHANGED <<wsVars, tel, callState, isProcessingRef, isSpeakingRef,
                   conversation, sidCtr, calls, starts, answerCmds, ansTimers,
                   pollVal, startPc, tdPc, isStreaming, isRecording, audioSub,
                   callbacksSet, injecting, txWhileInjecting, batVars,
                   gsmVars, b64Vars, msgVars>>

\* ---- push listener, state === 2 (OFFHOOK/ACTIVE)
PushActive ==
    /\ tel = 2
    /\ MayStart
    /\ answeringRef' = FALSE
    /\ answerCmds' = 0
    /\ IF ~isProcessingRef
         THEN StartAIWithAudioMode
         ELSE UNCHANGED <<isProcessingRef, callState, startPc, starts>>
    /\ UNCHANGED <<wsVars, tel, isSpeakingRef, conversation, sidCtr, calls,
                   ansTimers, ansSent, pollVal, tdPc, isStreaming,
                   isRecording, audioSub, callbacksSet, injecting,
                   txWhileInjecting, batVars, gsmVars, b64Vars, msgVars>>

\* ---- push listener, state === 0 (IDLE)
PushIdle ==
    /\ tel = 0
    /\ isProcessingRef => tdPc = "none"
    /\ answeringRef' = FALSE
    /\ answerCmds' = 0
    /\ IF isProcessingRef
         THEN TeardownBegin
         ELSE UNCHANGED <<isProcessingRef, tdPc>>
    /\ UNCHANGED <<wsVars, tel, callState, isSpeakingRef, conversation,
                   sidCtr, calls, starts, ansTimers, ansSent, pollVal,
                   startPc, isStreaming, isRecording, audioSub, callbacksSet,
                   injecting, txWhileInjecting, batVars, gsmVars, b64Vars,
                   msgVars>>

\* ---- watchdog poll: the setInterval callback calls getTelephonyState() ...
PollQuery ==
    /\ pollVal = <<>>
    /\ pollVal' = <<tel>>
    /\ UNCHANGED <<wsVars, orchVars, ansTimers, ansSent, startPc, tdPc,
                   isStreaming, isRecording, audioSub, callbacksSet,
                   injecting, txWhileInjecting, batVars, gsmVars, b64Vars,
                   msgVars>>

\* ... and continues with the state it returned.
PollHandle ==
    /\ pollVal # <<>>
    /\ pollVal' = <<>>
    /\ IF pollVal[1] = 2 /\ ~isProcessingRef
         THEN /\ StartAIWithAudioMode
              /\ UNCHANGED tdPc
         ELSE IF pollVal[1] = 0 /\ isProcessingRef
                THEN /\ TeardownBegin
                     /\ UNCHANGED <<callState, startPc, starts>>
                ELSE UNCHANGED <<isProcessingRef, callState, startPc, starts, tdPc>>
    /\ UNCHANGED <<wsVars, tel, isSpeakingRef, answeringRef, conversation,
                   sidCtr, calls, answerCmds, ansTimers, ansSent, isStreaming,
                   isRecording, audioSub, callbacksSet, injecting,
                   txWhileInjecting, batVars, gsmVars, b64Vars, msgVars>>

\* ---- teardown continues after stopPCMStream resolved: stopRecording()
\* finds recordingRef null, then setCallState("idle").
TeardownFinish ==
    /\ tdPc = "stopStream"
    /\ tdPc' = "none"
    /\ isStreaming' = FALSE
    /\ callState' = "idle"
    /\ UNCHANGED <<wsVars, tel, isProcessingRef, isSpeakingRef, answeringRef,
                   conversation, sidCtr, calls, starts, answerCmds, ansTimers,
                   ansSent, pollVal, startPc, isRecording, audioSub,
                   callbacksSet, injecting, txWhileInjecting, batVars,
                   gsmVars, b64Vars, msgVars>>

\* ---- startAIWithAudioMode after startPCMStream(16000) resolved
StartPcmOk ==
    /\ startPc = "pcm"
    /\ isStreaming' = TRUE
    /\ startPc' = "settle"
    /\ UNCHANGED <<wsVars, orchVars, ansTimers, ansSent, pollVal, tdPc,
                   isRecording, audioSub, callbacksSet, injecting,
                   txWhileInjecting, batVars, gsmVars, b64Vars, msgVars>>

\* ---- startAIProcessing up to its await of websocketManager.connect().
\* It has no guard of its own and sets the in-progress flag again.
StartAIProcessing ==
    /\ isProcessingRef' = TRUE
    /\ callState' = "active"
    /\ conversation' = <<>>
    /\ sidCtr' = NextSid
    /\ Connect(NextSid)
    /\ startPc' = "connect"

\* startPCMStream rejected: the catch of startAIWithAudioMode continues anyway.
StartPcmFail ==
    /\ startPc = "pcm"
    /\ StartAIProcessing
    /\ UNCHANGED <<tel, isSpeakingRef, answeringRef, calls, starts,
                   answerCmds, ansTimers, ansSent, pollVal, tdPc, isStreaming,
                   isRecording, audioSub, callbacksSet, injecting,
                   txWhileInjecting, batVars, gsmVars, b64Vars, msgVars>>

\* The 500 ms settle delay elapsed.
StartSettled ==
    /\ startPc = "settle"
    /\ StartAIProcessing
    /\ UNCHANGED <<tel, isSpeakingRef, answeringRef, calls, starts,
                   answerCmds, ansTimers, ansSent, pollVal, tdPc, isStreaming,
                   isRecording, audioSub, callbacksSet, injecting,
                   txWhileInjecting, batVars, gsmVars, b64Vars, msgVars>>

\* connect() resolved: onAudioChunk listener, setCallbacks, then
\* await startRecordingPCM().
StartConnected ==
    /\ startPc = "connect"
    /\ connRes = "ok"
    /\ audioSub' = TRUE
    /\ callbacksSet' = TRUE
    /\ startPc' = "record"
    /\ UNCHANGED <<wsVars, orchVars, ansTimers, ansSent, pollVal, tdPc,
                   isStreaming, isRecording, injecting, txWhileInjecting,
                   batVars, gsmVars, b64Vars, msgVars>>

\* The catch of startAIProcessing.
StartCatch ==
    /\ isProcessingRef' = FALSE
    /\ callState' = "idle"
    /\ startPc' = "none"

\* connect() rejected (onerror).
StartConnectFailed ==
    /\ startPc = "connect"
    /\ connRes = "err"
    /\ StartCatch
    /\ UNCHANGED <<wsVars, tel, isSpeakingRef, answeringRef, conversation,
                   sidCtr, calls, starts, answerCmds, ansTimers, ansSent,
                   pollVal, tdPc, isStreaming, isRecording, audioSub,
                   callbacksSet, injecting, txWhileInjecting, batVars,
                   gsmVars, b64Vars, msgVars>>

\* startRecordingPCM() resolved: native capture runs.
StartRecordOk ==
    /\ startPc = "record"
    /\ isRecording' = TRUE
    /\ callState' = "recording"
    /\ startPc' = "none"
    /\ UNCHANGED <<wsVars, tel, isProcessingRef, isSpeakingRef, answeringRef,
                   conversation, sidCtr, calls, starts, answerCmds, ansTimers,
                   ansSent, pollVal, tdPc, isStreaming, audioSub,
                   callbacksSet, injecting, txWhileInjecting, batVars,
                   gsmVars, b64Vars, msgVars>>

\* startRecordingPCM() rejected (AudioRecord initialization failed).
StartRecordFail ==
    /\ startPc = "record"
    /\ StartCatch
    /\ UNCHANGED <<wsVars, tel, isSpeakingRef, answeringRef, conversation,
                   sidCtr, calls, starts, answerCmds, ansTimers, ansSent,
                   pollVal, tdPc, isStreaming, isRecording, audioSub,
                   callbacksSet, injecting, txWhileInjecting, batVars,
                   gsmVars, b64Vars, msgVars>>

\* ---- onAudioChunk listener handleNativeAudioChunk: a captured frame is
\* forwarded when the connection is active.
NativeAudioChunk ==
    /\ isRecording
    /\ audioSub
    /\ IsConnectionActive
    /\ callState' = "speaking"
    /\ txWhileInjecting' =
          (\/ txWhileInjecting
           \/ injecting > 0 /\ isStreaming /\ wsSessionId # NoSid)
    /\ UNCHANGED <<wsVars, tel, isProcessingRef, isSpeakingRef, answeringRef,
                   conversation, sidCtr, calls, starts, answerCmds, ansTimers,
                   ansSent, pollVal, startPc, tdPc, isStreaming, isRecording,
                   audioSub, callbacksSet, injecting, batVars, gsmVars,
                   b64Vars, msgVars>>

\* ---- onTranscription callback: a transcription message arrives on socket s.
BackendTranscription(s) ==
    /\ socks[s].st = "open"
    /\ callbacksSet
    /\ Len(conversation) < MaxConv
    /\ conversation' = Append(LastN(conversation, 5), "user")
    /\ UNCHANGED <<wsVars, tel, callState, isProcessingRef, isSpeakingRef,
                   answeringRef, sidCtr, calls, starts, answerCmds, strVars,
                   batVars, gsmVars, b64Vars, msgVars>>

\* ---- onAudioResponse callback: an audio reply arrives on socket s; the
\* callback awaits CallAudioModule.writePCMChunk(base64).
BackendAudio(s) ==
    /\ socks[s].st = "open"
    /\ callbacksSet
    /\ injecting < MaxInject
    /\ callState' = "speaking"
    /\ injecting' = injecting + 1
    /\ UNCHANGED <<wsVars, tel, isProcessingRef, isSpeakingRef, answeringRef,
                   conversation, sidCtr, calls, starts, answerCmds, ansTimers,
                   ansSent, pollVal, startPc, tdPc, isStreaming, isRecording,
                   audioSub, callbacksSet, txWhileInjecting, batVars, gsmVars,
                   b64Vars, msgVars>>

\* ---- onAudioResponse: writePCMChunk settled (the chunk was written to the
\* playback track, or the call was rejected)
WritePCMDone ==
    /\ injecting > 0
    /\ injecting' = injecting - 1
    /\ UNCHANGED <<wsVars, orchVars, ansTimers, ansSent, pollVal, startPc,
                   tdPc, isStreaming, isRecording, audioSub, callbacksSet,
                   txWhileInjecting, batVars, gsmVars, b64Vars, msgVars>>

\* ======================= batched orchestrator (src/App.tsx), the handlers

\* getTelephonyState(): the platform's state, or 0 when the query throws.
Readings == {tel, 0}

\* Playbacks in progress: the playAudioFromBlob calls being awaited.
PlaybackCount ==
    (IF bStartPc = "greetPlay" THEN 1 ELSE 0)
      + (IF interimPc \in {"play", "playMain"} THEN 1 ELSE 0)
      + (IF turnPc = "mainPlay" THEN 1 ELSE 0)

\* stopRecording() once its awaits are done: stopAndUnloadAsync() if the
\* recording still runs, then recordingRef.current = null.
StopRecordingDone ==
    /\ capture' = (capture /\ recordingRef # "live")
    /\ recordingRef' = "null"

\* ---- poll callback, telephonyState === 1
BPollRinging ==
    /\ \E s \in Readings : s = 1
    /\ callState' = "incoming"
    /\ UNCHANGED <<wsVars, tel, isProcessingRef, isSpeakingRef, answeringRef,
                   conversation, sidCtr, calls, starts, answerCmds, strVars,
                   batVars, gsmVars, b64Vars, msgVars>>

\* resetSession(): sessionId = null, sessionExpiry = null.
ResetSession ==
    /\ sessionId' = NoSid
    /\ sessionExpiry' = 0
    /\ reqSids' = {}

\* getOrCreateSessionId() as called by sendGreeting and sendToN8n: a new id
\* when there is none or it has expired, and the expiry is moved; the request
\* carries the id.
GetOrCreateSessionId ==
    /\ sessionId' = IF sessionId = NoSid \/ sessionExpiry = 0
                       \/ now > sessionExpiry
                      THEN now + 1
                      ELSE sessionId
    /\ sessionExpiry' = now + SESSION_DURATION
    /\ reqSids' = reqSids \cup {sessionId'}

\* ---- startAIProcessing (batched) up to its first await that suspends
BStartAIProcessing ==
    /\ ResetSession
    /\ ~isProcessingRef
    /\ bStartPc = "none"
    /\ isProcessingRef' = TRUE
    /\ callState' = "active"
    /\ hasGreetedRef' = FALSE
    /\ conversation' = <<>>
    /\ teardowns' = 0
    /\ starts' = Bump(starts)
    /\ bStartPc' = IF recordingRef = "null" THEN "mode" ELSE "stopRec"

\* ---- poll callback, telephonyState === 2
BPollActive ==
    /\ \E s \in Readings : s = 2
    /\ BStartAIProcessing
    /\ UNCHANGED <<wsVars, tel, isSpeakingRef, answeringRef, sidCtr, calls,
                   answerCmds, strVars, recVars, bTdPc, loopPc, duration,
                   turnVars, turns, faults, spoke, currentSound, now,
                   conversationHistory, llmApi, llmPending, gsmVars, b64Vars,
                   msgVars>>

\* A variant of BPollIdle in which the idle branch runs only between chunks.
BPollIdleAfterChunk ==
    /\ \E s \in Readings : s = 0
    /\ turnPc = "none"
    /\ faults' = (faults \/ tel # 0)
    /\ isProcessingRef
    /\ bTdPc = "none"
    /\ isProcessingRef' = FALSE
    /\ teardowns' = Bump(teardowns)
    /\ IF recordingRef = "null"
         THEN callState' = "idle" /\ UNCHANGED bTdPc
         ELSE bTdPc' = "stopRec" /\ UNCHANGED callState
    /\ UNCHANGED <<wsVars, tel, isSpeakingRef, answeringRef, conversation,
                   sidCtr, calls, starts, answerCmds, strVars, recVars,
                   hasGreetedRef, bStartPc, loopPc, duration, turnVars, turns,
                   spoke, currentSound, sessionId, sessionExpiry, now,
                   reqSids, conversationHistory, llmApi, llmPending, gsmVars,
                   b64Vars, msgVars>>

\* A variant of BPollIdle in which a query that failed during a call is told
\* apart from the idle state and ignored.
BPollIdleTolerant ==
    /\ \E s \in Readings : s = 0
    /\ faults' = (faults \/ tel # 0)
    /\ isProcessingRef
    /\ bTdPc = "none"
    /\ IF tel # 0
         THEN UNCHANGED <<isProcessingRef, teardowns, callState, bTdPc>>
         ELSE /\ isProcessingRef' = FALSE
              /\ teardowns' = Bump(teardowns)
              /\ IF recordingRef = "null"
                   THEN callState' = "idle" /\ UNCHANGED bTdPc
                   ELSE bTdPc' = "stopRec" /\ UNCHANGED callState
    /\ UNCHANGED <<wsVars, tel, isSpeakingRef, answeringRef, conversation,
                   sidCtr, calls, starts, answerCmds, strVars, recVars,
                   hasGreetedRef, bStartPc, loopPc, duration, turnVars, turns,
                   spoke, currentSound, sessionId, sessionExpiry, now,
                   reqSids, conversationHistory, llmApi, llmPending, gsmVars,
                   b64Vars, msgVars>>

\* ---- poll callback, idle branch, up to the await inside stopRecording()
BPollIdle ==
    /\ \E s \in Readings : s = 0
    /\ faults' = (faults \/ tel # 0)
    /\ isProcessingRef
    /\ bTdPc = "none"
    /\ isProcessingRef' = FALSE
    /\ teardowns' = Bump(teardowns)
    /\ IF recordingRef = "null"
         THEN callState' = "idle" /\ UNCHANGED bTdPc
         ELSE bTdPc' = "stopRec" /\ UNCHANGED callState
    /\ UNCHANGED <<wsVars, tel, isSpeakingRef, answeringRef, conversation,
                   sidCtr, calls, starts, answerCmds, strVars, recVars,
                   hasGreetedRef, bStartPc, loopPc, duration, turnVars, turns,
                   spoke, currentSound, sessionId, sessionExpiry, now,
                   reqSids, conversationHistory, llmApi, llmPending, gsmVars,
                   b64Vars, msgVars>>

\* ... and after it: setCallState("idle").
BTeardownFinish ==
    /\ bTdPc = "stopRec"
    /\ StopRecordingDone
    /\ callState' = "idle"
    /\ bTdPc' = "none"
    /\ UNCHANGED <<wsVars, tel, isProcessingRef, isSpeakingRef, answeringRef,
                   conversation, sidCtr, calls, starts, answerCmds, strVars,
                   hasGreetedRef, bStartPc, loopPc, duration, turnVars,
                   teardowns, turns, faults, spoke, currentSound, sessionId,
                   sessionExpiry, now, reqSids, conversationHistory, llmApi,
                   llmPending, gsmVars, b64Vars, msgVars>>

\* ---- startAIProcessing after stopRecording()
BStartStopped ==
    /\ bStartPc = "stopRec"
    /\ StopRecordingDone
    /\ bStartPc' = "mode"
    /\ UNCHANGED <<wsVars, orchVars, strVars, hasGreetedRef, bTdPc, loopPc,
                   duration, turnVars, teardowns, turns, faults, spoke,
                   currentSound, sessionId, sessionExpiry, now, reqSids,
                   conversationHistory, llmApi, llmPending, gsmVars, b64Vars,
                   msgVars>>

\* ---- startAIProcessing after setAudioModeAsync: the greeting is requested
BStartMode ==
    /\ bStartPc = "mode"
    /\ IF ~hasGreetedRef
         THEN /\ callState' = "speaking"
              /\ isSpeakingRef' = TRUE
              /\ spoke' = TRUE
              /\ hasGreetedRef' = TRUE
              /\ bStartPc' = "greetFetch"
              /\ GetOrCreateSessionId
         ELSE /\ bStartPc' = "recStart"
              /\ UNCHANGED <<callState, isSpeakingRef, spoke, hasGreetedRef,
                             sessionId, sessionExpiry, reqSids>>
    /\ UNCHANGED <<wsVars, tel, isProcessingRef, answeringRef, conversation,
                   sidCtr, calls, starts, answerCmds, strVars, recVars, bTdPc,
                   loopPc, duration, turnVars, teardowns, turns, faults,
                   currentSound, now, conversationHistory, llmApi, llmPending,
                   gsmVars, b64Vars, msgVars>>

\* ---- sendGreeting: the response carries audio, playback starts
GreetingOk ==
    /\ bStartPc = "greetFetch"
    /\ bStartPc' = "greetPlay"
    /\ UNCHANGED <<wsVars, orchVars, strVars, recVars, hasGreetedRef, bTdPc,
                   loopPc, duration, turnVars, teardowns, turns, faults,
                   spoke, currentSound, sessionId, sessionExpiry, now,
                   reqSids, conversationHistory, llmApi, llmPending, gsmVars,
                   b64Vars, msgVars>>

\* sendGreeting returned (onEndSpeaking was called): the greeting turn is
\* recorded and the first recording is prepared.
GreetingReturned ==
    /\ isSpeakingRef' = FALSE
    /\ conversation' = <<"assistant">>
    /\ bStartPc' = "recStart"

\* ---- sendGreeting: the request fails or returns no audio (catch)
GreetingFail ==
    /\ bStartPc = "greetFetch"
    /\ GreetingReturned
    /\ UNCHANGED <<wsVars, tel, callState, isProcessingRef, answeringRef,
                   sidCtr, calls, starts, answerCmds, strVars, recVars,
                   hasGreetedRef, bTdPc, loopPc, duration, turnVars,
                   teardowns, turns, faults, spoke, currentSound, sessionId,
                   sessionExpiry, now, reqSids, conversationHistory, llmApi,
                   llmPending, gsmVars, b64Vars, msgVars>>

\* ---- sendGreeting: playback completed
GreetingPlayed ==
    /\ bStartPc = "greetPlay"
    /\ GreetingReturned
    /\ UNCHANGED <<wsVars, tel, callState, isProcessingRef, answeringRef,
                   sidCtr, calls, starts, answerCmds, strVars, recVars,
                   hasGreetedRef, bTdPc, loopPc, duration, turnVars,
                   teardowns, turns, faults, spoke, currentSound, sessionId,
                   sessionExpiry, now, reqSids, conversationHistory, llmApi,
                   llmPending, gsmVars, b64Vars, msgVars>>

\* ---- startAIProcessing: the recording started; processLoop() is called and
\* runs up to its first await.
BStartRecordingOk ==
    /\ bStartPc = "recStart"
    /\ ~capture
    /\ loopPc = "none"
    /\ capture' = TRUE
    /\ recordingRef' = "live"
    /\ callState' = "recording"
    /\ bStartPc' = "none"
    /\ duration' = 0
    /\ spoke' = FALSE
    /\ IF isProcessingRef
         THEN loopPc' = "sleep" /\ UNCHANGED teardowns
         ELSE loopPc' = "cleanStop" /\ teardowns' = Bump(teardowns)
    /\ UNCHANGED <<wsVars, tel, isProcessingRef, isSpeakingRef, answeringRef,
                   conversation, sidCtr, calls, starts, answerCmds, strVars,
                   hasGreetedRef, bTdPc, turnVars, turns, faults,
                   currentSound, sessionId, sessionExpiry, now, reqSids,
                   conversationHistory, llmApi, llmPending, gsmVars, b64Vars,
                   msgVars>>

\* ---- startAIProcessing: preparing the recording throws (catch)
BStartRecordingFail ==
    /\ bStartPc = "recStart"
    /\ isProcessingRef' = FALSE
    /\ callState' = "idle"
    /\ StopRecordingDone
    /\ bStartPc' = "none"
    /\ UNCHANGED <<wsVars, tel, isSpeakingRef, answeringRef, conversation,
                   sidCtr, calls, starts, answerCmds, strVars, hasGreetedRef,
                   bTdPc, loopPc, duration, turnVars, teardowns, turns,
                   faults, spoke, currentSound, sessionId, sessionExpiry, now,
                   reqSids, conversationHistory, llmApi, llmPending, gsmVars,
                   b64Vars, msgVars>>

\* ---- processLoop: the cleanup after the loop, up to the await inside
\* stopRecording()
Cleanup ==
    /\ teardowns' = Bump(teardowns)
    /\ IF recordingRef = "null"
         THEN /\ isProcessingRef' = FALSE
              /\ isSpeakingRef' = FALSE
              /\ callState' = "idle"
              /\ loopPc' = "none"
         ELSE /\ loopPc' = "cleanStop"
              /\ UNCHANGED <<isProcessingRef, isSpeakingRef, callState>>

\* ---- processLoop: while (isProcessingRef.current)
LoopWhile ==
    IF isProcessingRef
      THEN /\ loopPc' = "sleep"
           /\ UNCHANGED <<isProcessingRef, isSpeakingRef, callState, teardowns>>
      ELSE Cleanup

\* A variant of the next step whose interval counter also advances while the
\* speaking flag is set.
LoopTickNoPause ==
    /\ loopPc = "sleep"
    /\ \E s \in Readings :
         IF s # 2
           THEN Cleanup /\ faults' = (faults \/ tel = 2) /\ UNCHANGED duration
           ELSE LET d == duration + 1
                IN  /\ d <= MaxDuration
                    /\ duration' = d
                    /\ UNCHANGED faults
                    /\ IF /\ d % CHUNK_INTERVAL_SECONDS = 0
                          /\ recordingRef # "null"
                          /\ ~isSpeakingRef
                         THEN /\ recordingRef = "live" => turns < MaxTurns
                              /\ loopPc' = "status"
                              /\ UNCHANGED <<isProcessingRef, isSpeakingRef,
                                             callState, teardowns>>
                         ELSE LoopWhile
    /\ UNCHANGED <<wsVars, tel, answeringRef, conversation, sidCtr, calls,
                   starts, answerCmds, strVars, recVars, hasGreetedRef,
                   bStartPc, bTdPc, turnVars, turns, spoke, currentSound,
                   sessionId, sessionExpiry, now, reqSids,
                   conversationHistory, llmApi, llmPending, gsmVars, b64Vars,
                   msgVars>>

\* ---- processLoop: one second passed and the telephony query returned
LoopTick ==
    /\ loopPc = "sleep"
    /\ \E s \in Readings :
         IF s # 2
           THEN Cleanup /\ faults' = (faults \/ tel = 2) /\ UNCHANGED duration
           ELSE LET d == IF isSpeakingRef THEN duration ELSE duration + 1
                IN  /\ d <= MaxDuration
                    /\ duration' = d
                    /\ UNCHANGED faults
                    /\ IF /\ d % CHUNK_INTERVAL_SECONDS = 0
                          /\ recordingRef # "null"
                          /\ ~isSpeakingRef
                         THEN /\ recordingRef = "live" => turns < MaxTurns
                              /\ loopPc' = "status"
                              /\ UNCHANGED <<isProcessingRef, isSpeakingRef,
                                             callState, teardowns>>
                         ELSE LoopWhile
    /\ UNCHANGED <<wsVars, tel, answeringRef, conversation, sidCtr, calls,
                   starts, answerCmds, strVars, recVars, hasGreetedRef,
                   bStartPc, bTdPc, turnVars, turns, spoke, currentSound,
                   sessionId, sessionExpiry, now, reqSids,
                   conversationHistory, llmApi, llmPending, gsmVars, b64Vars,
                   msgVars>>

\* ---- processLoop: the chunk is closed and handed to processAudioChunk, which
\* runs up to its await of transcribeWithWhisper
LoopCloseChunk ==
    /\ loopPc = "status"
    /\ CASE recordingRef = "live" ->
              /\ capture' = FALSE
              /\ recordingRef' = "dead"
              /\ callState' = "processing"
              /\ turnPc' = "stt"
              /\ loopPc' = "chunk"
              /\ turns' = turns + 1
              /\ UNCHANGED <<isProcessingRef, isSpeakingRef, teardowns, interimPc,
                             interimFinished, mainAudioData, mainPlayed>>
         [] recordingRef = "dead" ->
              /\ loopPc' = "tel2"
              /\ UNCHANGED <<recVars, callState, isProcessingRef, isSpeakingRef,
                             teardowns, turnVars, turns>>
         [] recordingRef = "null" ->
              /\ LoopWhile
              /\ UNCHANGED <<recVars, turnVars, turns>>
    /\ UNCHANGED <<wsVars, tel, answeringRef, conversation, sidCtr, calls,
                   starts, answerCmds, strVars, hasGreetedRef, bStartPc,
                   bTdPc, duration, faults, spoke, currentSound, sessionId,
                   sessionExpiry, now, reqSids, conversationHistory, llmApi,
                   llmPending, gsmVars, b64Vars, msgVars>>

\* ---- processLoop: the second telephony query returned
LoopRestart ==
    /\ loopPc = "tel2"
    /\ \E s \in Readings :
         /\ faults' = (faults \/ s # tel)
         /\ IF s = 2 /\ isProcessingRef /\ ~isSpeakingRef
           THEN /\ loopPc' = "rec"
                /\ UNCHANGED <<isProcessingRef, isSpeakingRef, callState, teardowns>>
           ELSE LoopWhile
    /\ UNCHANGED <<wsVars, tel, answeringRef, conversation, sidCtr, calls,
                   starts, answerCmds, strVars, recVars, hasGreetedRef,
                   bStartPc, bTdPc, duration, turnVars, turns, spoke,
                   currentSound, sessionId, sessionExpiry, now, reqSids,
                   conversationHistory, llmApi, llmPending, gsmVars, b64Vars,
                   msgVars>>

\* ---- processLoop: the new recording started
LoopRecordingOk ==
    /\ loopPc = "rec"
    /\ ~capture
    /\ capture' = TRUE
    /\ recordingRef' = "live"
    /\ callState' = "recording"
    /\ IF isProcessingRef
         THEN loopPc' = "sleep" /\ UNCHANGED teardowns
         ELSE loopPc' = "cleanStop" /\ teardowns' = Bump(teardowns)
    /\ UNCHANGED <<wsVars, tel, isProcessingRef, isSpeakingRef, answeringRef,
                   conversation, sidCtr, calls, starts, answerCmds, strVars,
                   hasGreetedRef, bStartPc, bTdPc, duration, turnVars, turns,
                   faults, spoke, currentSound, sessionId, sessionExpiry, now,
                   reqSids, conversationHistory, llmApi, llmPending, gsmVars,
                   b64Vars, msgVars>>

\* A variant of LoopRecordingFail in which the exception leaves the loop
\* (break) instead of being swallowed by the inner catch.
LoopRecordingFailAborts ==
    /\ loopPc = "rec"
    /\ faults' = TRUE
    /\ Cleanup
    /\ UNCHANGED <<wsVars, tel, answeringRef, conversation, sidCtr, calls,
                   starts, answerCmds, strVars, recVars, hasGreetedRef,
                   bStartPc, bTdPc, duration, turnVars, turns, spoke,
                   currentSound, sessionId, sessionExpiry, now, reqSids,
                   conversationHistory, llmApi, llmPending, gsmVars, b64Vars,
                   msgVars>>

\* ---- processLoop: getStatusAsync or stopAndUnloadAsync of the running
\* recording throws (chunkError): no chunk, no new recording
LoopStopFail ==
    /\ loopPc = "status"
    /\ recordingRef = "live"
    /\ faults' = TRUE
    /\ LoopWhile
    /\ UNCHANGED <<wsVars, tel, answeringRef, conversation, sidCtr, calls,
                   starts, answerCmds, strVars, recVars, hasGreetedRef,
                   bStartPc, bTdPc, duration, turnVars, turns, spoke,
                   currentSound, sessionId, sessionExpiry, now, reqSids,
                   conversationHistory, llmApi, llmPending, gsmVars, b64Vars,
                   msgVars>>

\* ---- processLoop: preparing the new recording throws (chunkError)
LoopRecordingFail ==
    /\ loopPc = "rec"
    /\ faults' = TRUE
    /\ LoopWhile
    /\ UNCHANGED <<wsVars, tel, answeringRef, conversation, sidCtr, calls,
                   starts, answerCmds, strVars, recVars, hasGreetedRef,
                   bStartPc, bTdPc, duration, turnVars, turns, spoke,
                   currentSound, sessionId, sessionExpiry, now, reqSids,
                   conversationHistory, llmApi, llmPending, gsmVars, b64Vars,
                   msgVars>>

\* ---- processLoop: the cleanup after stopRecording()
LoopCleanupDone ==
    /\ loopPc = "cleanStop"
    /\ StopRecordingDone
    /\ isProcessingRef' = FALSE
    /\ isSpeakingRef' = FALSE
    /\ callState' = "idle"
    /\ loopPc' = "none"
    /\ UNCHANGED <<wsVars, tel, answeringRef, conversation, sidCtr, calls,
                   starts, answerCmds, strVars, hasGreetedRef, bStartPc,
                   bTdPc, duration, turnVars, teardowns, turns, faults, spoke,
                   currentSound, sessionId, sessionExpiry, now, reqSids,
                   conversationHistory, llmApi, llmPending, gsmVars, b64Vars,
                   msgVars>>

\* processAudioChunk returned to processLoop, which queries the telephony
\* state again.
ChunkReturned ==
    /\ turnPc' = "none"
    /\ loopPc' = "tel2"

\* ---- processAudioChunk: the transcription has text; sendToN8n issues the
\* interim and the main request
TranscribeOk ==
    /\ turnPc = "stt"
    /\ GetOrCreateSessionId
    /\ interimPc \in {"none", "done"}
    /\ conversation' = Append(conversation, "user")
    /\ isSpeakingRef' = TRUE
    /\ spoke' = TRUE
    /\ turnPc' = "main"
    /\ interimPc' = "fetch"
    /\ interimFinished' = FALSE
    /\ mainAudioData' = FALSE
    /\ mainPlayed' = FALSE
    /\ UNCHANGED <<wsVars, tel, callState, isProcessingRef, answeringRef,
                   sidCtr, calls, starts, answerCmds, strVars, recVars,
                   hasGreetedRef, bStartPc, bTdPc, loopPc, duration,
                   teardowns, turns, faults, currentSound, now,
                   conversationHistory, llmApi, llmPending, gsmVars, b64Vars,
                   msgVars>>

\* ---- variant of TranscribeNothing that records a caller turn for the empty
\* transcription
TranscribeNothingAppends ==
    /\ turnPc = "stt"
    /\ ChunkReturned
    /\ conversation' = Append(conversation, "user")
    /\ UNCHANGED <<wsVars, tel, callState, isProcessingRef, isSpeakingRef,
                   answeringRef, sidCtr, calls, starts, answerCmds, strVars,
                   recVars, hasGreetedRef, bStartPc, bTdPc, duration,
                   interimPc, interimFinished, mainAudioData, mainPlayed,
                   teardowns, turns, faults, spoke, currentSound, sessionId,
                   sessionExpiry, now, reqSids, conversationHistory, llmApi,
                   llmPending, gsmVars, b64Vars, msgVars>>

\* ---- processAudioChunk: transcription error or no speech
TranscribeNothing ==
    /\ turnPc = "stt"
    /\ ChunkReturned
    /\ UNCHANGED <<wsVars, orchVars, strVars, recVars, hasGreetedRef,
                   bStartPc, bTdPc, duration, interimPc, interimFinished,
                   mainAudioData, mainPlayed, teardowns, turns, faults, spoke,
                   currentSound, sessionId, sessionExpiry, now, reqSids,
                   conversationHistory, llmApi, llmPending, gsmVars, b64Vars,
                   msgVars>>

\* ---- interimPromise: the interim response carries audio, playback starts
InterimAudio ==
    /\ interimPc = "fetch"
    /\ callState' = "speaking"
    /\ interimPc' = "play"
    /\ UNCHANGED <<wsVars, tel, isProcessingRef, isSpeakingRef, answeringRef,
                   conversation, sidCtr, calls, starts, answerCmds, strVars,
                   recVars, hasGreetedRef, bStartPc, bTdPc, loopPc, duration,
                   turnPc, interimFinished, mainAudioData, mainPlayed,
                   teardowns, turns, faults, spoke, currentSound, sessionId,
                   sessionExpiry, now, reqSids, conversationHistory, llmApi,
                   llmPending, gsmVars, b64Vars, msgVars>>

\* interimFinished = true; if (mainAudioData) the main audio is played.
InterimFinish ==
    /\ interimFinished' = TRUE
    /\ interimPc' = IF mainAudioData THEN "playMain" ELSE "done"

\* .catch of interimPromise: interimFinished = true and nothing else.
InterimCatch ==
    /\ interimFinished' = TRUE
    /\ interimPc' = "done"

\* ---- interimPromise: the interim response is an error status or empty
InterimNoAudio ==
    /\ interimPc = "fetch"
    /\ InterimFinish
    /\ UNCHANGED <<wsVars, orchVars, strVars, recVars, hasGreetedRef,
                   bStartPc, bTdPc, loopPc, duration, turnPc, mainAudioData,
                   mainPlayed, teardowns, turns, faults, spoke, currentSound,
                   sessionId, sessionExpiry, now, reqSids,
                   conversationHistory, llmApi, llmPending, gsmVars, b64Vars,
                   msgVars>>

\* ---- interimPromise: the interim request rejects
InterimReject ==
    /\ interimPc = "fetch"
    /\ InterimCatch
    /\ UNCHANGED <<wsVars, orchVars, strVars, recVars, hasGreetedRef,
                   bStartPc, bTdPc, loopPc, duration, turnPc, mainAudioData,
                   mainPlayed, teardowns, turns, faults, spoke, currentSound,
                   sessionId, sessionExpiry, now, reqSids,
                   conversationHistory, llmApi, llmPending, gsmVars, b64Vars,
                   msgVars>>

\* ---- interimPromise: the interim playback completed
InterimPlayed ==
    /\ interimPc = "play"
    /\ InterimFinish
    /\ UNCHANGED <<wsVars, orchVars, strVars, recVars, hasGreetedRef,
                   bStartPc, bTdPc, loopPc, duration, turnPc, mainAudioData,
                   mainPlayed, teardowns, turns, faults, spoke, currentSound,
                   sessionId, sessionExpiry, now, reqSids,
                   conversationHistory, llmApi, llmPending, gsmVars, b64Vars,
                   msgVars>>

\* ---- interimPromise: playAudioFromBlob throws
InterimPlayFail ==
    /\ interimPc = "play"
    /\ InterimCatch
    /\ UNCHANGED <<wsVars, orchVars, strVars, recVars, hasGreetedRef,
                   bStartPc, bTdPc, loopPc, duration, turnPc, mainAudioData,
                   mainPlayed, teardowns, turns, faults, spoke, currentSound,
                   sessionId, sessionExpiry, now, reqSids,
                   conversationHistory, llmApi, llmPending, gsmVars, b64Vars,
                   msgVars>>

\* ---- interimPromise: the main audio it played completed, onEndSpeaking
InterimMainPlayed ==
    /\ interimPc = "playMain"
    /\ mainPlayed' = TRUE
    /\ isSpeakingRef' = FALSE
    /\ callState' = "recording"
    /\ interimPc' = "done"
    /\ UNCHANGED <<wsVars, tel, isProcessingRef, answeringRef, conversation,
                   sidCtr, calls, starts, answerCmds, strVars, recVars,
                   hasGreetedRef, bStartPc, bTdPc, loopPc, duration, turnPc,
                   interimFinished, mainAudioData, teardowns, turns, faults,
                   spoke, currentSound, sessionId, sessionExpiry, now,
                   reqSids, conversationHistory, llmApi, llmPending, gsmVars,
                   b64Vars, msgVars>>

\* ---- sendToN8n: the main response carries audio
MainAudio ==
    /\ turnPc = "main"
    /\ mainAudioData' = TRUE
    /\ IF interimFinished
         THEN callState' = "speaking" /\ turnPc' = "mainPlay"
         ELSE turnPc' = "waitInterim" /\ UNCHANGED callState
    /\ UNCHANGED <<wsVars, tel, isProcessingRef, isSpeakingRef, answeringRef,
                   conversation, sidCtr, calls, starts, answerCmds, strVars,
                   recVars, hasGreetedRef, bStartPc, bTdPc, loopPc, duration,
                   interimPc, interimFinished, mainPlayed, teardowns, turns,
                   faults, spoke, currentSound, sessionId, sessionExpiry, now,
                   reqSids, conversationHistory, llmApi, llmPending, gsmVars,
                   b64Vars, msgVars>>

\* ---- sendToN8n: the main request fails or returns no audio (catch:
\* onEndSpeaking, failure); processAudioChunk clears the speaking flag
MainFail ==
    /\ turnPc = "main"
    /\ isSpeakingRef' = FALSE
    /\ callState' = "recording"
    /\ ChunkReturned
    /\ UNCHANGED <<wsVars, tel, isProcessingRef, answeringRef, conversation,
                   sidCtr, calls, starts, answerCmds, strVars, recVars,
                   hasGreetedRef, bStartPc, bTdPc, duration, interimPc,
                   interimFinished, mainAudioData, mainPlayed, teardowns,
                   turns, faults, spoke, currentSound, sessionId,
                   sessionExpiry, now, reqSids, conversationHistory, llmApi,
                   llmPending, gsmVars, b64Vars, msgVars>>

\* ---- sendToN8n: the main playback completed, onEndSpeaking, success
MainPlayed ==
    /\ turnPc = "mainPlay"
    /\ mainPlayed' = TRUE
    /\ isSpeakingRef' = FALSE
    /\ callState' = "recording"
    /\ conversation' = Append(conversation, "assistant")
    /\ ChunkReturned
    /\ UNCHANGED <<wsVars, tel, isProcessingRef, answeringRef, sidCtr, calls,
                   starts, answerCmds, strVars, recVars, hasGreetedRef,
                   bStartPc, bTdPc, duration, interimPc, interimFinished,
                   mainAudioData, teardowns, turns, faults, spoke,
                   currentSound, sessionId, sessionExpiry, now, reqSids,
                   conversationHistory, llmApi, llmPending, gsmVars, b64Vars,
                   msgVars>>

\* ---- sendToN8n: await interimPromise returned, success
TurnJoined ==
    /\ turnPc = "waitInterim"
    /\ interimPc = "done"
    /\ conversation' = Append(conversation, "assistant")
    /\ ChunkReturned
    /\ UNCHANGED <<wsVars, tel, callState, isProcessingRef, isSpeakingRef,
                   answeringRef, sidCtr, calls, starts, answerCmds, strVars,
                   recVars, hasGreetedRef, bStartPc, bTdPc, duration,
                   interimPc, interimFinished, mainAudioData, mainPlayed,
                   teardowns, turns, faults, spoke, currentSound, sessionId,
                   sessionExpiry, now, reqSids, conversationHistory, llmApi,
                   llmPending, gsmVars, b64Vars, msgVars>>

\* ============ GSM orchestrator (src/App_GSM_broken.tsx), TelephonyManager
\* (src/unnamed/part_005) and AudioBridge (src/unnamed/part_004). The native
\* AudioBridgeModule is not part of the build, so AudioBridge runs its
\* fallback paths.

\* ---- endpoint event call_received while the call rings: onCallReceived
\* (callState "incoming", conversation []), then answerCall(call), which
\* sends endpoint.answerCall.
CallReceived ==
    /\ mounted
    /\ tel = 1
    /\ gAnsSent < MaxAns
    /\ currentCall' = TRUE
    /\ callState' = "incoming"
    /\ conversation' = <<>>
    /\ gAnsSent' = gAnsSent + 1
    /\ answerCmds' = Bump(answerCmds)
    /\ UNCHANGED <<wsVars, tel, isProcessingRef, isSpeakingRef, answeringRef,
                   sidCtr, calls, starts, strVars, batVars, bridgeActive, gPc,
                   mounted, hangupCmds, escaped, stopPc, b64Vars, msgVars>>

\* endpoint.answerCall resolves: a ringing call becomes active.
GAnswerOk ==
    /\ gAnsSent > 0
    /\ gAnsSent' = gAnsSent - 1
    /\ tel' = IF tel = 1 THEN 2 ELSE tel
    /\ UNCHANGED <<wsVars, callState, isProcessingRef, isSpeakingRef,
                   answeringRef, conversation, sidCtr, calls, starts,
                   answerCmds, strVars, batVars, currentCall, bridgeActive,
                   gPc, mounted, hangupCmds, escaped, stopPc, b64Vars, msgVars>>

\* endpoint.answerCall rejects: logged, answerCall returns false.
GAnswerFail ==
    /\ gAnsSent > 0
    /\ gAnsSent' = gAnsSent - 1
    /\ UNCHANGED <<wsVars, orchVars, strVars, batVars, currentCall,
                   bridgeActive, gPc, mounted, hangupCmds, escaped, stopPc,
                   b64Vars, msgVars>>

\* ---- endpoint event call_changed with state ACTIVE: onCallConnected up to
\* its await of websocketManager.connect(sessionId). The session id is fresh:
\* getOrCreateSessionId() is followed by resetSession().
CallChanged ==
    /\ mounted
    /\ tel = 2
    /\ gPc = "none"
    /\ callState' = "active"
    /\ sidCtr' = NextSid
    /\ Connect(NextSid)
    /\ starts' = Bump(starts)
    /\ answerCmds' = 0
    /\ gPc' = "connect"
    /\ UNCHANGED <<tel, isProcessingRef, isSpeakingRef, answeringRef,
                   conversation, calls, strVars, batVars, currentCall,
                   bridgeActive, gAnsSent, mounted, hangupCmds, escaped,
                   stopPc, b64Vars, msgVars>>

\* connect() resolved: audioBridge.startBridging(sessionId, call) returns false
\* when the bridge is active, else sets isActive and connects again.
GConnected ==
    /\ gPc = "connect"
    /\ connRes = "ok"
    /\ IF bridgeActive
         THEN /\ gPc' = "none"
              /\ UNCHANGED <<wsVars, bridgeActive>>
         ELSE /\ bridgeActive' = TRUE
              /\ Connect(sidCtr)
              /\ gPc' = "bridgeConnect"
    /\ UNCHANGED <<orchVars, strVars, batVars, currentCall, gAnsSent, mounted,
                   hangupCmds, escaped, stopPc, b64Vars, msgVars>>

\* A variant of the next handler that ends the phone call when the connect
\* fails (telephonyManager.hangupCall()).
GConnectFailedHangup ==
    /\ gPc = "connect"
    /\ connRes = "err"
    /\ gPc' = "none"
    /\ hangupCmds' = Bump(hangupCmds)
    /\ UNCHANGED <<wsVars, orchVars, strVars, batVars, currentCall,
                   bridgeActive, gAnsSent, mounted, escaped, stopPc, b64Vars,
                   msgVars>>

\* connect() rejected: onCallConnected has no catch, the sequence ends and
\* the rejection leaves the handler.
GConnectFailed ==
    /\ gPc = "connect"
    /\ connRes = "err"
    /\ gPc' = "none"
    /\ escaped' = TRUE
    /\ UNCHANGED <<wsVars, orchVars, strVars, batVars, currentCall,
                   bridgeActive, gAnsSent, mounted, hangupCmds, stopPc,
                   b64Vars, msgVars>>

\* startBridging: its connect() resolved, the fallback capture starts
\* nothing, startBridging returns true: callState "streaming".
GBridgeConnected ==
    /\ gPc = "bridgeConnect"
    /\ connRes = "ok"
    /\ callState' = "streaming"
    /\ gPc' = "none"
    /\ UNCHANGED <<wsVars, tel, isProcessingRef, isSpeakingRef, answeringRef,
                   conversation, sidCtr, calls, starts, answerCmds, strVars,
                   batVars, currentCall, bridgeActive, gAnsSent, mounted,
                   hangupCmds, escaped, stopPc, b64Vars, msgVars>>

\* startBridging: its connect() rejected (catch): isActive = false.
GBridgeConnectFailed ==
    /\ gPc = "bridgeConnect"
    /\ connRes = "err"
    /\ bridgeActive' = FALSE
    /\ gPc' = "none"
    /\ UNCHANGED <<wsVars, orchVars, strVars, batVars, currentCall, gAnsSent,
                   mounted, hangupCmds, escaped, stopPc, b64Vars, msgVars>>

\* ---- endpoint event call_terminated: onCallTerminated (stopBridging, which
\* disconnects when the bridge is active, then websocketManager.disconnect(),
\* callState "idle"), then currentCall = null. Without the native module no
\* await of it suspends.
CallTerminated ==
    /\ mounted
    /\ tel = 0
    /\ currentCall
    /\ Disconnect
    /\ bridgeActive' = FALSE
    /\ callState' = "idle"
    /\ currentCall' = FALSE
    /\ answerCmds' = 0
    /\ UNCHANGED <<tel, isProcessingRef, isSpeakingRef, answeringRef,
                   conversation, sidCtr, calls, starts, strVars, batVars, gPc,
                   gAnsSent, mounted, hangupCmds, escaped, stopPc, b64Vars,
                   msgVars>>

\* onTranscription callback of the GSM app: the turn is appended.
GTranscription(s) ==
    /\ socks[s].st = "open"
    /\ Len(conversation) < MaxConv
    /\ conversation' = Append(conversation, "user")
    /\ UNCHANGED <<wsVars, tel, callState, isProcessingRef, isSpeakingRef,
                   answeringRef, sidCtr, calls, starts, answerCmds, strVars,
                   batVars, gsmVars, b64Vars, msgVars>>

\* ---- cleanup on unmount: telephonyManager.shutdown() (hangupCall() when a
\* call is current, which sends endpoint.hangupCall), audioBridge.stopBridging()
\* and websocketManager.disconnect(). Afterwards the endpoint handlers return
\* at once (!mounted, or no endpoint to answer with).
Unmount ==
    /\ mounted
    /\ mounted' = FALSE
    /\ hangupCmds' = IF currentCall THEN Bump(hangupCmds) ELSE hangupCmds
    /\ currentCall' = FALSE
    /\ bridgeActive' = FALSE
    /\ Disconnect
    /\ UNCHANGED <<orchVars, strVars, batVars, gPc, gAnsSent, escaped, stopPc,
                   b64Vars, msgVars>>


\* ============ base64 helpers (src/utils/websocketManager.ts 298-317 and
\* src/unnamed/part_004 263-282)
\* Byte values the buffers are drawn from.
ByteSamples == {0, 1, 63, 128, 250, 255}
Buffers == UNION {[1..n -> ByteSamples] : n \in 0..MaxBufLen}

\* The base64 alphabet of btoa/atob: character of the 6-bit value v is
\* B64Chars[v + 1].
B64Chars ==
    << "A", "B", "C", "D", "E", "F", "G", "H", "I", "J", "K", "L", "M",
       "N", "O", "P", "Q", "R", "S", "T", "U", "V", "W", "X", "Y", "Z",
       "a", "b", "c", "d", "e", "f", "g", "h", "i", "j", "k", "l", "m",
       "n", "o", "p", "q", "r", "s", "t", "u", "v", "w", "x", "y", "z",
       "0", "1", "2", "3", "4", "5", "6", "7", "8", "9", "+", "/" >>

B64Char(v) == B64Chars[v + 1]
B64Value(c) == CHOOSE v \in 0..63 : B64Chars[v + 1] = c

\* btoa(binary): three 8-bit characters give four 6-bit characters; a last
\* group of one or two characters is padded with "=".
RECURSIVE btoa(_)
btoa(binary) ==
    IF Len(binary) = 0 THEN <<>>
    ELSE IF Len(binary) = 1
      THEN << B64Char(binary[1] \div 4),
              B64Char((binary[1] % 4) * 16), "=", "=" >>
    ELSE IF Len(binary) = 2
      THEN << B64Char(binary[1] \div 4),
              B64Char((binary[1] % 4) * 16 + binary[2] \div 16),
              B64Char((binary[2] % 16) * 4), "=" >>
    ELSE << B64Char(binary[1] \div 4),
            B64Char((binary[1] % 4) * 16 + binary[2] \div 16),
            B64Char((binary[2] % 16) * 4 + binary[3] \div 64),
            B64Char(binary[3] % 64) >>
         \o btoa(SubSeq(binary, 4, Len(binary)))

\* atob(text): four 6-bit characters give three 8-bit characters; "=" ends
\* the data.
RECURSIVE atob(_)
atob(text) ==
    IF Len(text) < 2 \/ text[1] = "=" \/ text[2] = "=" THEN <<>>
    ELSE LET a == B64Value(text[1])
             b == B64Value(text[2])
             first == (a * 4 + b \div 16) % 256
         IN  IF Len(text) < 3 \/ text[3] = "=" THEN <<first>>
             ELSE LET c == B64Value(text[3])
                      second == ((b % 16) * 16 + c \div 4) % 256
                  IN  IF Len(text) < 4 \/ text[4] = "=" THEN <<first, second>>
                      ELSE LET d == B64Value(text[4])
                               third == ((c % 4) * 64 + d) % 256
                           IN  <<first, second, third>>
                               \o atob(SubSeq(text, 5, Len(text)))

\* arrayBufferToBase64(buffer): binary += String.fromCharCode(bytes[i]) over
\* the buffer, then btoa(binary).
arrayBufferToBase64(buf) ==
    btoa([i \in 1..Len(buf) |-> buf[i] % 65536])

\* A variant of base64ToArrayBuffer whose loop stops one character early.
base64ToArrayBufferShort(text) ==
    LET binaryString == atob(text)
    IN  [i \in 1..Len(binaryString) |->
           IF i < Len(binaryString) THEN binaryString[i] % 256 ELSE 0]

\* base64ToArrayBuffer(base64): binaryString = atob(base64), then
\* bytes[i] = binaryString.charCodeAt(i) into a Uint8Array of its length.
base64ToArrayBuffer(text) ==
    LET binaryString == atob(text)
    IN  [i \in 1..Len(binaryString) |-> binaryString[i] % 256]

\* ---- a buffer is encoded (sendAudioChunk, onAudioResponse)
Encode ==
    /\ b64Pc = "idle"
    /\ base64' = arrayBufferToBase64(buffer)
    /\ b64Pc' = "encoded"
    /\ UNCHANGED <<wsVars, orchVars, strVars, batVars, gsmVars, buffer, bytes,
                   msgVars>>

\* ---- the text is decoded (handleMessage 'response', AudioBridge)
Decode ==
    /\ b64Pc = "encoded"
    /\ bytes' = base64ToArrayBuffer(base64)
    /\ b64Pc' = "decoded"
    /\ UNCHANGED <<wsVars, orchVars, strVars, batVars, gsmVars, buffer,
                   base64, msgVars>>

\* The helpers applied to every buffer of Buffers.
InitB64 ==
    /\ WSInit /\ OrchInit /\ StrInit /\ BatInit /\ GsmInit /\ MsgInit
    /\ llmApi = "none"
    /\ buffer \in Buffers
    /\ b64Pc = "idle"
    /\ base64 = <<>>
    /\ bytes = <<>>

NextB64 ==
    \/ Encode
    \/ Decode

SpecB64 == InitB64 /\ [][NextB64]_vars

\* ============ WebSocketManager: messages and the audio queue
\* (src/utils/websocketManager.ts 120-241)
\* What ws.onmessage may deliver: a binary frame, a text that JSON.parse
\* rejects, and JSON messages by their type ("unknown": a type outside the
\* switch).
Msgs ==
    {"binary", "unparsable", "unknown", "transcription", "response",
     "responseNoAudio", "error", "control", "connection_established",
     "connection_established_sid"}

\* A variant of MessageCallback that reports an unknown type to onError.
MessageCallbackReporting(m) ==
    CASE m \in {"binary", "response"} -> "onAudioResponse"
      [] m = "transcription" -> "onTranscription"
      [] m \in {"error", "unknown"} -> "onError"
      [] m \in {"connection_established", "connection_established_sid"} ->
           "onConnected"
      [] OTHER -> "none"

\* The callback handleMessage invokes for a message, "none" when it invokes
\* none (JSON.parse threw into the catch, default branch, 'control',
\* 'response' without audio).
MessageCallback(m) ==
    CASE m \in {"binary", "response"} -> "onAudioResponse"
      [] m = "transcription" -> "onTranscription"
      [] m = "error" -> "onError"
      [] m \in {"connection_established", "connection_established_sid"} ->
           "onConnected"
      [] OTHER -> "none"

\* ---- setCallbacks(callbacks)
SetCallbacks ==
    /\ callbacksSet' = TRUE
    /\ UNCHANGED <<wsVars, orchVars, ansTimers, ansSent, pollVal, startPc,
                   tdPc, isStreaming, isRecording, audioSub, injecting,
                   txWhileInjecting, batVars, gsmVars, b64Vars, msgVars>>

\* ---- ws.onmessage of socket s: handleMessage(event.data); sid is the
\* sessionId a connection_established message carries.
HandleMessage(s, m, sid) ==
    /\ socks[s].st = "open"
    /\ msgs < MaxMsgs
    /\ msgs' = msgs + 1
    /\ lastMsg' = m
    /\ cbLog' = IF callbacksSet /\ MessageCallback(m) # "none"
                  THEN Append(cbLog, MessageCallback(m))
                  ELSE cbLog
    /\ wsSessionId' = IF m = "connection_established_sid"
                        THEN sid
                        ELSE wsSessionId
    /\ UNCHANGED <<ws, socks, isConnected, reconnectAttempts, timers, connRes,
                   manualClosed, drops, audioQueue, isProcessing, queueTimers,
                   chunkCtr, handed, cutoff, orchVars, strVars, batVars,
                   gsmVars, b64Vars>>

\* A variant of processAudioQueue that takes the newest chunk (pop) instead
\* of the oldest (shift).
ProcessAudioQueuePop(queue, pending) ==
    IF queue = <<>>
      THEN /\ isProcessing' = FALSE
           /\ audioQueue' = queue
           /\ queueTimers' = pending
      ELSE /\ pending < MaxQTimers
           /\ isProcessing' = TRUE
           /\ audioQueue' = SubSeq(queue, 1, Len(queue) - 1)
           /\ queueTimers' = pending + 1

\* processAudioQueue(): an empty queue ends the chain; otherwise a chunk is
\* shifted, given to sendAudioChunk, and the next run is scheduled in 50 ms.
ProcessAudioQueueBody(queue, pending) ==
    IF queue = <<>>
      THEN /\ isProcessing' = FALSE
           /\ audioQueue' = queue
           /\ queueTimers' = pending
      ELSE /\ pending < MaxQTimers
           /\ isProcessing' = TRUE
           /\ audioQueue' = Tail(queue)
           /\ queueTimers' = pending + 1

\* startAudioStream(audioChunk): push, then processAudioQueue() unless a
\* chain is running.
StartAudioStreamBody(c) ==
    IF isProcessing
      THEN /\ audioQueue' = Append(audioQueue, c)
           /\ UNCHANGED <<isProcessing, queueTimers>>
      ELSE ProcessAudioQueueBody(Append(audioQueue, c), queueTimers)

\* ---- startAudioStream(audioChunk)
StartAudioStream(c) ==
    /\ Len(audioQueue) < MaxQueue
    /\ StartAudioStreamBody(c)
    /\ UNCHANGED <<ws, socks, wsSessionId, isConnected, reconnectAttempts,
                   timers, connRes, manualClosed, drops, chunkCtr, handed,
                   cutoff, orchVars, strVars, batVars, gsmVars, b64Vars,
                   msgVars>>

\* ---- the 50 ms timer of processAudioQueue fires
ProcessAudioQueue ==
    /\ queueTimers > 0
    /\ ProcessAudioQueueBody(audioQueue, queueTimers - 1)
    /\ UNCHANGED <<ws, socks, wsSessionId, isConnected, reconnectAttempts,
                   timers, connRes, manualClosed, drops, chunkCtr, handed,
                   cutoff, orchVars, strVars, batVars, gsmVars, b64Vars,
                   msgVars>>

\* The manager under any caller, with the messages of the backend.
NextMsg ==
    \/ \E sid \in Sids : CallConnect(sid)
    \/ CallDisconnect
    \/ \E s \in Slots : SocketOpen(s)
    \/ \E s \in Slots : SocketRefused(s)
    \/ \E s \in Slots : SocketClose(s)
    \/ \E t \in TimerRecs : ReconnectTimer(t)
    \/ SetCallbacks
    \/ \E s \in Slots, m \in Msgs, sid \in Sids : HandleMessage(s, m, sid)
    \/ \E c \in 1..MaxQueue : StartAudioStream(c)
    \/ ProcessAudioQueue

SpecMsg == Init /\ [][NextMsg]_vars

\* ============ WebSocketManager: the audio path with the chunks told apart
\* (src/utils/websocketManager.ts 104-113, 176-241)
\* A variant of Transmits without the guards of sendAudioChunk and send.
TransmitsUnguarded == ws \in Slots /\ socks[ws].st = "open"

\* Whether a chunk given to sendAudioChunk goes out: sendAudioChunk returns
\* unless isConnected and a session id is held, send() returns unless this.ws
\* and isConnected, and ws.send transmits on an open socket (it throws into
\* the catch on a connecting one and discards on a closed one).
Transmits ==
    /\ isConnected /\ wsSessionId # NoSid
    /\ ws \in Slots /\ socks[ws].st = "open"

\* The call of sendAudioChunk a run of processAudioQueue on queue makes, read
\* off the chunk the run removed.
Shifted(queue) ==
    IF Len(audioQueue') < Len(queue)
      THEN LET c == CHOOSE x \in 1..MaxChunks :
                        /\ \E i \in 1..Len(queue) : queue[i] = x
                        /\ \A i \in 1..Len(audioQueue') : audioQueue'[i] # x
           IN  handed' = Append(handed, [chunk |-> c, via |-> "queue",
                                         tx |-> Transmits])
      ELSE UNCHANGED handed

\* ---- startAudioStream(audioChunk), c the next chunk captured
StreamChunk(c) ==
    /\ c = chunkCtr + 1
    /\ chunkCtr' = c
    /\ StartAudioStreamBody(c)
    /\ Shifted(Append(audioQueue, c))
    /\ UNCHANGED <<ws, socks, wsSessionId, isConnected, reconnectAttempts,
                   timers, connRes, manualClosed, drops, cutoff, orchVars,
                   strVars, batVars, gsmVars, b64Vars, msgVars>>

\* ---- the 50 ms timer of processAudioQueue fires
QueueTimer ==
    /\ queueTimers > 0
    /\ ProcessAudioQueueBody(audioQueue, queueTimers - 1)
    /\ Shifted(audioQueue)
    /\ UNCHANGED <<ws, socks, wsSessionId, isConnected, reconnectAttempts,
                   timers, connRes, manualClosed, drops, chunkCtr, cutoff,
                   orchVars, strVars, batVars, gsmVars, b64Vars, msgVars>>

\* ---- sendAudioChunk(audioChunk) called by the application, c the next
\* chunk captured
SendAudioChunk(c) ==
    /\ c = chunkCtr + 1
    /\ chunkCtr' = c
    /\ handed' = Append(handed, [chunk |-> c, via |-> "direct",
                                  tx |-> Transmits])
    /\ UNCHANGED <<ws, socks, wsSessionId, isConnected, reconnectAttempts,
                   timers, connRes, manualClosed, drops, audioQueue,
                   isProcessing, queueTimers, cutoff, orchVars, strVars,
                   batVars, gsmVars, b64Vars, msgVars>>

\* The audio path of the manager under any caller: chunks are streamed
\* through the queue or sent directly while the connection comes and goes.
NextQueue ==
    \/ CallConnect(1)
    \/ CallDisconnect
    \/ \E s \in Slots : SocketOpen(s)
    \/ \E s \in Slots : SocketClose(s)
    \/ \E t \in TimerRecs : ReconnectTimer(t)
    \/ \E c \in 1..MaxChunks : StreamChunk(c)
    \/ QueueTimer
    \/ \E c \in 1..MaxChunks : SendAudioChunk(c)

SpecQueue == Init /\ [][NextQueue]_vars

\* ============ LLM stage: the context history (src/utils/llmProcessor.ts)
\* The module as built with either key, or with none as in the repository.
InitLLM ==
    /\ WSInit /\ OrchInit /\ StrInit /\ BatInit /\ GsmInit /\ B64Init /\ MsgInit
    /\ llmApi \in {"none", "gemini", "groq"}

\* ---- generateResponse(userMessage), the message not blank, up to the fetch
\* of generateWithGemini or generateWithGroq; with no key it returns the
\* fixed text at once
GenerateResponse ==
    /\ llmPending < MaxLlmCalls
    /\ LET h == Append(conversationHistory, "user")
       IN  conversationHistory' =
               IF Len(h) > LlmHistoryLimit
                 THEN SubSeq(h, Len(h) - LlmHistoryLimit + 1, Len(h))
                 ELSE h
    /\ llmPending' = IF llmApi = "none" THEN llmPending ELSE llmPending + 1
    /\ UNCHANGED <<wsVars, orchVars, strVars, recVars, hasGreetedRef,
                   bStartPc, bTdPc, loopPc, duration, turnVars, teardowns,
                   turns, faults, spoke, currentSound, sessionId,
                   sessionExpiry, now, reqSids, llmApi, gsmVars, b64Vars,
                   msgVars>>

\* ---- generateWithGemini / generateWithGroq after the fetch: the reply
\* carries a text, or none (status not ok, empty text, the fetch threw)
LlmReply(text) ==
    /\ llmPending > 0
    /\ llmPending' = llmPending - 1
    /\ conversationHistory' = IF text
                                THEN Append(conversationHistory, "assistant")
                                ELSE conversationHistory
    /\ UNCHANGED <<wsVars, orchVars, strVars, recVars, hasGreetedRef,
                   bStartPc, bTdPc, loopPc, duration, turnVars, teardowns,
                   turns, faults, spoke, currentSound, sessionId,
                   sessionExpiry, now, reqSids, llmApi, gsmVars, b64Vars,
                   msgVars>>

NextLLM ==
    \/ GenerateResponse
    \/ \E text \in BOOLEAN : LlmReply(text)

SpecLLM == InitLLM /\ [][NextLLM]_vars
\* ------------------------------------------- the manager under any caller
NextWS ==
    \/ \E sid \in Sids : CallConnect(sid)
    \/ CallDisconnect
    \/ \E s \in Slots : SocketOpen(s)
    \/ \E s \in Slots : SocketError(s)
    \/ \E s \in Slots : SocketClose(s)
    \/ \E t \in TimerRecs : ReconnectTimer(t)

SpecWS == Init /\ [][NextWS]_vars

\* ----- the streaming app on a reliable network: telephony, auto-answer,
\* session start and teardown
NextAnswer ==
    \/ TelRing
    \/ TelPickup
    \/ TelHangup
    \/ PushRinging
    \/ AnswerTimer
    \/ AnswerOk
    \/ AnswerFail
    \/ PushActive
    \/ PushIdle
    \/ PollQuery
    \/ PollHandle
    \/ TeardownFinish
    \/ StartPcmOk
    \/ StartSettled
    \/ StartConnected
    \/ StartRecordOk
    \/ \E s \in Slots : SocketOpen(s)

SpecAnswer == Init /\ [][NextAnswer]_vars

\* ----- the streaming app with a call picked up by hand: session start,
\* streaming and teardown over an unreliable network
NextStream ==
    \/ TelRing
    \/ TelPickup
    \/ TelHangup
    \/ PushActive
    \/ PushIdle
    \/ PollQuery
    \/ PollHandle
    \/ TeardownFinish
    \/ StartPcmOk
    \/ StartPcmFail
    \/ StartSettled
    \/ StartConnected
    \/ StartConnectFailed
    \/ StartRecordOk
    \/ StartRecordFail
    \/ NativeAudioChunk
    \/ \E s \in Slots : BackendTranscription(s)
    \/ \E s \in Slots : BackendAudio(s)
    \/ WritePCMDone
    \/ \E s \in Slots : SocketOpen(s)
    \/ \E s \in Slots : SocketRefused(s)
    \/ \E s \in Slots : SocketClose(s)
    \/ \E t \in TimerRecs : ReconnectTimer(t)

SpecStream == Init /\ [][NextStream]_vars

\* ----- the batched app: poll, session start, chunk loop and turns
NextBatch ==
    \/ TelRing
    \/ TelPickup
    \/ TelHangup
    \/ BPollRinging
    \/ BPollActive
    \/ BPollIdle
    \/ BTeardownFinish
    \/ BStartStopped
    \/ BStartMode
    \/ GreetingOk
    \/ GreetingFail
    \/ GreetingPlayed
    \/ BStartRecordingOk
    \/ BStartRecordingFail
    \/ LoopTick
    \/ LoopCloseChunk
    \/ LoopRestart
    \/ LoopRecordingOk
    \/ LoopRecordingFail
    \/ LoopStopFail
    \/ LoopCleanupDone
    \/ TranscribeOk
    \/ TranscribeNothing
    \/ InterimAudio
    \/ InterimNoAudio
    \/ InterimReject
    \/ InterimPlayed
    \/ InterimPlayFail
    \/ InterimMainPlayed
    \/ MainAudio
    \/ MainFail
    \/ MainPlayed
    \/ TurnJoined

SpecBatch == Init /\ [][NextBatch]_vars

\* ----- the GSM app: endpoint events, auto-answer, session start, bridge
\* and teardown
NextGSM ==
    \/ TelRing
    \/ TelPickup
    \/ TelHangup
    \/ CallReceived
    \/ GAnswerOk
    \/ GAnswerFail
    \/ CallChanged
    \/ GConnected
    \/ GConnectFailed
    \/ GBridgeConnected
    \/ GBridgeConnectFailed
    \/ CallTerminated
    \/ Unmount
    \/ \E s \in Slots : GTranscription(s)
    \/ \E s \in Slots : SocketOpen(s)
    \/ \E s \in Slots : SocketRefused(s)
    \/ \E s \in Slots : SocketClose(s)
    \/ \E t \in TimerRecs : ReconnectTimer(t)

SpecGSM == Init /\ [][NextGSM]_vars

\* ================================================================ claims

\* C1: delivering the "active" notification two or more times in a row during
\* one call starts the session exactly once: the start sequence (transport
\* connect or greeting, capture start) is entered at most once per call.
C1_SessionStartedOnce == starts <= 1

\* C2: two "ringing" notifications in a row (no non-ringing notification
\* between them) produce exactly one answer command, whatever the outcome
\* of the first.
C2_OneAnswerCommand == answerCmds <= 1

\* C3: once the teardown of an active-to-idle notification has completed (for
\* a session whose start sequence is over), no capture is running, no
\* playback is running, the WebSocket is disconnected and the in-progress,
\* speaking and answering flags are all false.
C3_TeardownComplete ==
    [][tdPc # "none" /\ tdPc' = "none" /\ startPc = "none" =>
         /\ ~isRecording'
         /\ ~isStreaming'
         /\ ~isConnected' /\ Live' = {}
         /\ ~isProcessingRef' /\ ~isSpeakingRef' /\ ~answeringRef']_vars

\* C4: for one session the teardown sequence executes exactly once: the idle
\* branch of the poll and the cleanup of the chunk loop never both run it.
C4_TeardownOnce == teardowns <= 1

\* C5: after exactly N = maxReconnectAttempts consecutive connect failures
\* the Transport Session makes no further connect attempt: no reconnect
\* is scheduled and no socket is connecting once N attempts in a row failed.
C5_NoAttemptAfterNFailures ==
    /\ \A t \in timers : t.fails < maxReconnectAttempts
    /\ \A s \in Connecting : socks[s].fails < maxReconnectAttempts

\* C6: after a manual disconnect() has returned, no reconnect attempt is
\* made: as long as the orchestrator has not called connect() again, no
\* step creates a new connecting socket.
C6_NoReconnectAfterDisconnect ==
    [][manualClosed' =>
         \A s \in Slots :
            socks'[s].st = "connecting" => socks[s].st = "connecting"]_vars

\* C7: in batched mode no capture is running while an AI playback (greeting,
\* interim or main response) is in progress.
C7_MicExclusive == ~(capture /\ PlaybackCount > 0)

\* C8: when a turn of sendToN8n completes and its main request had returned
\* non-empty audio, that audio has been played.
C8_FinalResponsePlayed ==
    [][turnPc # "none" /\ turnPc' = "none" /\ mainAudioData => mainPlayed']_vars

\* C9: at most one playback is in flight at any time.
C9_OnePlayback == PlaybackCount <= 1

\* C10: a result of an in-flight transcription or AI request that arrives
\* after the call's teardown (the call has ended, a teardown has run and no
\* start or teardown sequence is pending) starts no playback, appends no
\* conversation turn and changes neither the call state nor the speaking flag.
C10_LateResultDiscarded ==
    [][/\ tel = 0 /\ teardowns >= 1 /\ ~isProcessingRef
       /\ bTdPc = "none" /\ bStartPc = "none"
       /\ (turnPc' # turnPc \/ interimPc' # interimPc)
       => /\ PlaybackCount' <= PlaybackCount
          /\ conversation' = conversation
          /\ callState' = callState
          /\ isSpeakingRef' = isSpeakingRef]_vars

\* C11: once the call was detected gone during a session and the call state
\* has become Idle, it stays Idle as long as the platform reports no call
\* (no ringing or active notification can arrive).
C11_StaysIdle ==
    [][tel = 0 /\ tel' = 0 /\ teardowns >= 1 /\ callState = "idle"
       => callState' = "idle"]_vars

\* C12: no AI-path error (connect failure, reconnect exhaustion, failed
\* answer, failed bridge start) causes a hang-up command: a hang-up command
\* is issued only by the cleanup on unmount.
C12_NoHangupOnError ==
    [][hangupCmds' # hangupCmds => mounted /\ ~mounted']_vars

\* C12 witness: the session's connect failed and was handled while the call
\* is still active, and no hang-up command has been issued.
C12_Witness ==
    /\ tel = 2
    /\ starts >= 1
    /\ connRes = "err"
    /\ gPc = "none"
    /\ mounted
    /\ hangupCmds = 0

\* C13: the chunk interval clock pauses during AI speech: a loop tick
\* advances the interval counter only when the speaking flag is clear, and a
\* chunk boundary is reached only by the tick that completes
\* CHUNK_INTERVAL_SECONDS non-speaking seconds, never while speaking.
C13_ClockPausesWhileSpeaking ==
    [][/\ loopPc = "sleep" /\ duration' # duration
          => /\ ~isSpeakingRef
             /\ duration' = duration + 1
       /\ loopPc = "sleep" /\ loopPc' = "status"
          => /\ ~isSpeakingRef
             /\ duration' = duration + 1
             /\ duration' % CHUNK_INTERVAL_SECONDS = 0]_vars

\* C13 witness: the chunk loop is between two ticks of an active call with
\* the speaking flag set and part of an interval accrued.
C13_Witness ==
    /\ tel = 2
    /\ loopPc = "sleep"
    /\ isProcessingRef
    /\ isSpeakingRef
    /\ duration > 0

\* C14: with the call active and no speaking since the chunk loop started,
\* the chunks completed between two ticks number exactly
\* duration \div CHUNK_INTERVAL_SECONDS (12 seconds: exactly 2 chunks).
C14_ChunksPerTicks ==
    tel = 2 /\ loopPc = "sleep" /\ isProcessingRef /\ ~spoke
        => turns = duration \div CHUNK_INTERVAL_SECONDS

C16_NoTurnsCleanIdle ==
    /\ tel = 0 /\ starts = 1 /\ turns = 0 /\ ~faults
    /\ bStartPc = "none" /\ bTdPc = "none" /\ loopPc = "none"
    => /\ conversation = <<>>
       /\ callState = "idle"
       /\ ~isProcessingRef
       /\ ~isSpeakingRef
       /\ ~capture

\* C17: when the connect of the session start fails, the call state is left
\* as it was (Active), the bridge does not start streaming, and no exception
\* leaves the orchestrator's handler.
C17_OpenFailureContained ==
    [][gPc = "connect" /\ connRes = "err" /\ gPc' = "none"
          => /\ callState' = callState
             /\ callState' # "streaming"
             /\ ~bridgeActive'
             /\ ~escaped']_vars

\* C18: base64ToArrayBuffer(arrayBufferToBase64(b)) = b for every byte
\* buffer b.
C18_Base64RoundTrip == b64Pc = "decoded" => bytes = buffer

\* C18 witness: a buffer with a full group and a padded rest, holding the
\* bytes 255 and 0, has made the round trip.
C18_Witness ==
    /\ b64Pc = "decoded"
    /\ Len(buffer) = 4
    /\ buffer[1] = 255
    /\ buffer[4] = 0
    /\ base64[7] = "="

\* C19: a message of unknown type or with a payload that cannot be parsed is
\* ignored: handleMessage invokes no callback (onError included) and leaves
\* the connection state, the session id, the retry counter and the audio
\* queue as they were.
C19_UnknownMessageIgnored ==
    [][msgs' # msgs /\ lastMsg' \in {"unknown", "unparsable"}
          => /\ cbLog' = cbLog
             /\ isConnected' = isConnected
             /\ ws' = ws
             /\ socks' = socks
             /\ wsSessionId' = wsSessionId
             /\ reconnectAttempts' = reconnectAttempts
             /\ audioQueue' = audioQueue
             /\ isProcessing' = isProcessing]_vars

\* C19 witness: a message of unknown type was handled with the callbacks set,
\* a session id held, the retry counter above zero and a chunk queued.
C19_Witness ==
    /\ msgs = 1
    /\ lastMsg = "unknown"
    /\ callbacksSet
    /\ cbLog = <<>>
    /\ wsSessionId # NoSid
    /\ reconnectAttempts > 0
    /\ audioQueue # <<>>

\* C20: in streaming mode no captured frame is written to the transport
\* session while the local injection of a backend audio reply is in progress.
C20_NoCaptureDuringInjection == ~txWhileInjecting

\* The streaming app on a reliable network, every handler of the app running
\* when it can: the listener is called for the current state, the timers
\* fire, the awaited native calls settle.
SpecAnswerFair ==
    /\ SpecAnswer
    /\ WF_vars(PushRinging)
    /\ WF_vars(AnswerTimer)
    /\ WF_vars(AnswerOk \/ AnswerFail)
    /\ WF_vars(PushActive)
    /\ WF_vars(PushIdle)
    /\ WF_vars(PollQuery)
    /\ WF_vars(PollHandle)
    /\ WF_vars(TeardownFinish)
    /\ WF_vars(StartPcmOk)
    /\ WF_vars(StartSettled)
    /\ WF_vars(StartConnected)
    /\ WF_vars(StartRecordOk)

\* C21: when the platform is back to idle and the call state is still
\* Incoming (the call was missed), the call state is eventually cleared to
\* Idle.
C21_MissedCallCleared ==
    (tel = 0 /\ callState = "incoming") ~> (callState = "idle")

\* The telephony stack reports RINGING while a call is active: a second call
\* is waiting (PhoneStateListener forwards the platform's state as it is).
TelCallWaiting ==
    /\ tel = 2
    /\ tel' = 1
    /\ UNCHANGED <<wsVars, callState, isProcessingRef, isSpeakingRef,
                   answeringRef, conversation, sidCtr, calls, starts,
                   answerCmds, strVars, batVars, gsmVars, b64Vars, msgVars>>

\* The streaming app on a reliable network, with waiting calls.
NextWaiting ==
    \/ NextAnswer
    \/ TelCallWaiting

SpecWaiting == Init /\ [][NextWaiting]_vars

\* C22: the call state becomes Incoming only from Idle (or stays Incoming): a
\* ringing notification handled while a session is in progress does not set
\* it.
C22_IncomingOnlyFromIdle ==
    [][callState' = "incoming" => callState \in {"idle", "incoming"}]_vars

SpecBatchFair ==
    /\ SpecBatch
    /\ WF_vars(BPollRinging) /\ WF_vars(BPollActive)
    /\ WF_vars(BPollIdle /\ tel = 0)
    /\ WF_vars(BTeardownFinish) /\ WF_vars(BStartStopped) /\ WF_vars(BStartMode)
    /\ WF_vars(GreetingOk \/ GreetingFail) /\ WF_vars(GreetingPlayed)
    /\ WF_vars(BStartRecordingOk \/ BStartRecordingFail)
    /\ WF_vars(LoopTick /\ (tel = 2 /\ isProcessingRef
                              => loopPc' \in {"sleep", "status"}))
    /\ WF_vars(LoopCloseChunk \/ LoopStopFail)
    /\ WF_vars(LoopRestart /\ (tel = 2 /\ isProcessingRef /\ ~isSpeakingRef
                                 => loopPc' = "rec"))
    /\ WF_vars(LoopRecordingOk \/ LoopRecordingFail)
    /\ WF_vars(LoopCleanupDone)
    /\ WF_vars(TranscribeOk \/ TranscribeNothing)
    /\ WF_vars(InterimAudio \/ InterimNoAudio \/ InterimReject)
    /\ WF_vars(InterimPlayed \/ InterimPlayFail) /\ WF_vars(InterimMainPlayed)
    /\ WF_vars(MainAudio \/ MainFail) /\ WF_vars(MainPlayed)
    /\ WF_vars(TurnJoined)

\* C24: after an AI turn of an active call the speaking flag is eventually
\* cleared (or the call ends): the turn never stays in playback.
C24_TurnReturnsToCapture ==
    (turnPc = "main") ~> (tel # 2 \/ ~isSpeakingRef)

\* C25: the end of the call cancels a session start that is still awaiting:
\* once the teardown has run and the platform reports no call, the pending
\* start sets no in-progress flag, opens no transport connection and starts
\* no capture.
C25_StartCancelled ==
    [][/\ tel = 0 /\ tel' = 0
       /\ startPc # "none" /\ ~isProcessingRef /\ tdPc = "none"
       => /\ ~isProcessingRef'
          /\ Live' \subseteq Live
          /\ isRecording' => isRecording]_vars

\* ---- startAIProcessing: the recording started and processLoop() is called
\* while an earlier instance of processLoop is still running (the call has no
\* guard). Both instances work on the same refs; loopPc goes on following the
\* earlier one.
BStartRecordingOverlap ==
    /\ bStartPc = "recStart"
    /\ ~capture
    /\ loopPc # "none"
    /\ capture' = TRUE
    /\ recordingRef' = "live"
    /\ callState' = "recording"
    /\ bStartPc' = "none"
    /\ UNCHANGED <<wsVars, tel, isProcessingRef, isSpeakingRef, answeringRef,
                   conversation, sidCtr, calls, starts, answerCmds, strVars,
                   hasGreetedRef, bTdPc, loopPc, duration, turnVars,
                   teardowns, turns, faults, spoke, currentSound, sessionId,
                   sessionExpiry, now, reqSids, conversationHistory, llmApi,
                   llmPending, gsmVars, b64Vars, msgVars>>

\* The batched app with the start of a second loop instance.
NextOverlap ==
    \/ NextBatch
    \/ BStartRecordingOverlap

SpecOverlap == Init /\ [][NextOverlap]_vars

\* C26: the chunk loop never overlaps itself: the start sequence calls
\* processLoop only when no earlier instance of it is running.
C26_SingleLoop ==
    [][bStartPc = "recStart" /\ bStartPc' = "none" /\ capture'
       => loopPc = "none"]_vars

\* C27: the end of the call is observed while a chunk is being processed:
\* whenever the platform reports no call during a session whose chunk is at
\* any of its suspension points, the idle branch of the poll can run at once,
\* and the teardown it started can finish without the chunk having returned.
C27_EndObservedMidChunk ==
    /\ (tel = 0 /\ isProcessingRef /\ bTdPc = "none" /\ loopPc = "chunk")
         => ENABLED BPollIdle
    /\ (bTdPc = "stopRec" /\ loopPc = "chunk") => ENABLED BTeardownFinish

\* C27: the teardown started by the poll has finished (call state Idle) while
\* the chunk closed before the end of the call is still being transcribed.
C27_Witness ==
    /\ tel = 0 /\ teardowns = 1 /\ bTdPc = "none" /\ ~isProcessingRef
    /\ callState = "idle"
    /\ loopPc = "chunk" /\ turnPc = "stt"

\* C28: one transport channel per call: at most one WebSocket created by the
\* manager is connecting or open at any time.
C28_SingleChannel == Cardinality(Live) <= 1

OpStartRecording ==
    /\ ~capture
    /\ capture' = TRUE
    /\ recordingRef' = "live"
    /\ UNCHANGED <<wsVars, orchVars, strVars, hasGreetedRef, bStartPc, bTdPc,
                   loopPc, duration, turnVars, teardowns, turns, faults,
                   spoke, currentSound, sessionId, sessionExpiry, now,
                   reqSids, conversationHistory, llmApi, llmPending, gsmVars,
                   b64Vars, msgVars>>

\* stopRecording(): nothing to do without a recording in recordingRef.
OpStopRecording ==
    /\ IF recordingRef = "null"
         THEN UNCHANGED recVars
         ELSE StopRecordingDone
    /\ UNCHANGED <<wsVars, orchVars, strVars, hasGreetedRef, bStartPc, bTdPc,
                   loopPc, duration, turnVars, teardowns, turns, faults,
                   spoke, currentSound, sessionId, sessionExpiry, now,
                   reqSids, conversationHistory, llmApi, llmPending, gsmVars,
                   b64Vars, msgVars>>

\* fallbackPlayAudio: currentSound = sound.
OpPlayFallback ==
    /\ currentSound' = "loaded"
    /\ UNCHANGED <<wsVars, orchVars, strVars, recVars, hasGreetedRef,
                   bStartPc, bTdPc, loopPc, duration, turnVars, teardowns,
                   turns, faults, spoke, sessionId, sessionExpiry, now,
                   reqSids, conversationHistory, llmApi, llmPending, gsmVars,
                   b64Vars, msgVars>>

\* stopCurrentAudio(): if (currentSound) stop, unload, currentSound = null.
OpStopCurrentAudio ==
    /\ currentSound' = IF currentSound # "null" THEN "null" ELSE currentSound
    /\ UNCHANGED <<wsVars, orchVars, strVars, recVars, hasGreetedRef,
                   bStartPc, bTdPc, loopPc, duration, turnVars, teardowns,
                   turns, faults, spoke, sessionId, sessionExpiry, now,
                   reqSids, conversationHistory, llmApi, llmPending, gsmVars,
                   b64Vars, msgVars>>

\* startPCMStream(sampleRate): the AudioTrack plays, isStreaming = true.
OpStartPCMStream ==
    /\ isStreaming' = TRUE
    /\ UNCHANGED <<wsVars, orchVars, ansTimers, ansSent, pollVal, startPc,
                   tdPc, isRecording, audioSub, callbacksSet, injecting,
                   txWhileInjecting, batVars, gsmVars, b64Vars, msgVars>>

\* stopPCMStream(): isStreaming = false, the track (if any) is released, the
\* promise resolves.
OpStopPCMStream ==
    /\ isStreaming' = FALSE
    /\ UNCHANGED <<wsVars, orchVars, ansTimers, ansSent, pollVal, startPc,
                   tdPc, isRecording, audioSub, callbacksSet, injecting,
                   txWhileInjecting, batVars, gsmVars, b64Vars, msgVars>>

\* startBridging(sessionId, call): refused when active, else isActive = true
\* and websocketManager.connect(sessionId).
OpStartBridging(sid) ==
    /\ ~bridgeActive
    /\ bridgeActive' = TRUE
    /\ Connect(sid)
    /\ UNCHANGED <<orchVars, strVars, batVars, currentCall, gPc, gAnsSent,
                   mounted, hangupCmds, escaped, stopPc, b64Vars, msgVars>>

\* A variant of stopBridging() without the test of isActive.
OpStopBridgingAlways ==
    /\ stopPc = "none"
    /\ stopPc' = "stopCapture"
    /\ UNCHANGED <<wsVars, orchVars, strVars, batVars, currentCall,
                   bridgeActive, gPc, gAnsSent, mounted, hangupCmds, escaped,
                   b64Vars, msgVars>>

\* stopBridging(): returns at once when not active, else awaits the native
\* stopCapture().
OpStopBridging ==
    /\ IF ~bridgeActive
         THEN UNCHANGED stopPc
         ELSE /\ stopPc = "none"
              /\ stopPc' = "stopCapture"
    /\ UNCHANGED <<wsVars, orchVars, strVars, batVars, currentCall,
                   bridgeActive, gPc, gAnsSent, mounted, hangupCmds, escaped,
                   b64Vars, msgVars>>

\* stopBridging() after stopCapture resolved: disconnect(), isActive = false.
OpStopCaptureOk ==
    /\ stopPc = "stopCapture"
    /\ Disconnect
    /\ bridgeActive' = FALSE
    /\ stopPc' = "none"
    /\ UNCHANGED <<orchVars, strVars, batVars, currentCall, gPc, gAnsSent,
                   mounted, hangupCmds, escaped, b64Vars, msgVars>>

\* stopBridging() after stopCapture threw: the catch logs the error.
OpStopCaptureFail ==
    /\ stopPc = "stopCapture"
    /\ stopPc' = "none"
    /\ UNCHANGED <<wsVars, orchVars, strVars, batVars, currentCall,
                   bridgeActive, gPc, gAnsSent, mounted, hangupCmds, escaped,
                   b64Vars, msgVars>>

NextStop ==
    \/ OpStartRecording
    \/ OpStopRecording
    \/ OpPlayFallback
    \/ OpStopCurrentAudio
    \/ OpStartPCMStream
    \/ OpStopPCMStream
    \/ \E sid \in Sids : OpStartBridging(sid)
    \/ OpStopBridging
    \/ OpStopCaptureOk
    \/ OpStopCaptureFail
    \/ \E s \in Slots : SocketOpen(s)
    \/ \E s \in Slots : SocketClose(s)
    \/ \E t \in TimerRecs : ReconnectTimer(t)

SpecStop == Init /\ [][NextStop]_vars

\* C30: the stop operations are idempotent: stopRecording, stopCurrentAudio,
\* stopBridging and stopPCMStream, called when their resource is already
\* stopped, change nothing.
C30_StopIdempotent ==
    [][(\/ OpStopRecording /\ recordingRef = "null"
        \/ OpStopCurrentAudio /\ currentSound = "null"
        \/ OpStopBridging /\ ~bridgeActive
        \/ OpStopPCMStream /\ ~isStreaming)
       => UNCHANGED vars]_vars

\* C30: the bridge was started and stopped again (its connection is closed),
\* every resource is stopped, and each stop operation can be called once more.
C30_Witness ==
    /\ ~bridgeActive /\ manualClosed /\ ws = NoSock
    /\ recordingRef = "null" /\ ~capture
    /\ currentSound = "null" /\ ~isStreaming
    /\ ENABLED OpStopRecording /\ ENABLED OpStopCurrentAudio
    /\ ENABLED OpStopBridging /\ ENABLED OpStopPCMStream

\* C31: conversation turns are appended in the order they are produced: when
\* the assistant turn that answers a caller utterance is appended, the
\* caller turn is already in the history.
C31_ReplyAfterCallerTurn ==
    [][(MainPlayed \/ TurnJoined)
       => \E i \in 1..Len(conversation) : conversation[i] = "user"]_vars

\* ------------------------------ the batched app's conversation history under
\* any sequence of turns
\* startAIProcessing: setConversation([]).
HistoryReset ==
    /\ conversation # <<>>
    /\ conversation' = <<>>
    /\ UNCHANGED <<wsVars, tel, callState, isProcessingRef, isSpeakingRef,
                   answeringRef, sidCtr, calls, starts, answerCmds, strVars,
                   batVars, gsmVars, b64Vars, msgVars>>

\* startAIProcessing after the greeting: setConversation([greeting]).
HistoryGreeting ==
    /\ conversation' = <<"assistant">>
    /\ UNCHANGED <<wsVars, tel, callState, isProcessingRef, isSpeakingRef,
                   answeringRef, sidCtr, calls, starts, answerCmds, strVars,
                   batVars, gsmVars, b64Vars, msgVars>>

\* processAudioChunk: setConversation(prev => [...prev, user turn]).
HistoryAppendUser ==
    /\ Len(conversation) < MaxHist
    /\ conversation' = Append(conversation, "user")
    /\ UNCHANGED <<wsVars, tel, callState, isProcessingRef, isSpeakingRef,
                   answeringRef, sidCtr, calls, starts, answerCmds, strVars,
                   batVars, gsmVars, b64Vars, msgVars>>

\* processAudioChunk: setConversation(prev => [...prev, assistant turn]).
HistoryAppendAssistant ==
    /\ Len(conversation) < MaxHist
    /\ conversation' = Append(conversation, "assistant")
    /\ UNCHANGED <<wsVars, tel, callState, isProcessingRef, isSpeakingRef,
                   answeringRef, sidCtr, calls, starts, answerCmds, strVars,
                   batVars, gsmVars, b64Vars, msgVars>>

NextHistory ==
    \/ HistoryReset
    \/ HistoryGreeting
    \/ HistoryAppendUser
    \/ HistoryAppendAssistant

SpecHistory == Init /\ [][NextHistory]_vars

\* C32: the conversation history is bounded: its length never exceeds a fixed
\* N (the streaming app keeps the last 5 turns and the new one).
C32_HistoryBounded == Len(conversation) <= HistoryLimit

\* ------------------------------ the backend session id of n8nProcessor under
\* any caller, with time passing
\* Date.now() advances.
ClockTick ==
    /\ now < MaxNow
    /\ now' = now + 1
    /\ UNCHANGED <<wsVars, orchVars, strVars, recVars, hasGreetedRef,
                   bStartPc, bTdPc, loopPc, duration, turnVars, teardowns,
                   turns, faults, spoke, currentSound, sessionId,
                   sessionExpiry, reqSids, conversationHistory, llmApi,
                   llmPending, gsmVars, b64Vars, msgVars>>

\* A new call starts: resetSession().
CallResetSession ==
    /\ ResetSession
    /\ UNCHANGED <<wsVars, orchVars, strVars, recVars, hasGreetedRef,
                   bStartPc, bTdPc, loopPc, duration, turnVars, teardowns,
                   turns, faults, spoke, currentSound, now,
                   conversationHistory, llmApi, llmPending, gsmVars, b64Vars,
                   msgVars>>

\* sendGreeting or sendToN8n builds its request body.
CallGetOrCreateSessionId ==
    /\ GetOrCreateSessionId
    /\ UNCHANGED <<wsVars, orchVars, strVars, recVars, hasGreetedRef,
                   bStartPc, bTdPc, loopPc, duration, turnVars, teardowns,
                   turns, faults, spoke, currentSound, now,
                   conversationHistory, llmApi, llmPending, gsmVars, b64Vars,
                   msgVars>>

NextSession ==
    \/ ClockTick
    \/ CallResetSession
    \/ CallGetOrCreateSessionId

SpecSession == Init /\ [][NextSession]_vars

\* C33: the backend session is 1:1 with the call: all requests sent since the
\* session was reset for the call carry the same session id.
C33_OneSessionPerCall == Cardinality(reqSids) <= 1

\* C34: a failure of the native stopCapture does not leave the bridge stuck:
\* whenever stopBridging returns, the bridge is inactive and the WebSocket is
\* disconnected.
C34_StopBridgingCompletes ==
    [][stopPc = "stopCapture" /\ stopPc' = "none"
       => ~bridgeActive' /\ ~isConnected' /\ ws' = NoSock]_vars

\* C35: the close event of a socket that disconnect() has closed, arriving
\* late, does not mark a newer open connection as disconnected and schedules
\* no reconnect.
C35_LateCloseHarmless ==
    [][\A s \in Slots :
          /\ socks[s].st = "closing" /\ socks'[s].st = "none"
          /\ IsConnectionActive /\ ws # s
          => /\ isConnected'
             /\ timers' \subseteq timers]_vars

\* C36: in every reachable state of the WebSocket manager the reconnect
\* counter stays within 0..maxReconnectAttempts, whatever the interleaving
\* of open, close, connect and disconnect events.
C36_ReconnectAttemptsBounded ==
    0 <= reconnectAttempts /\ reconnectAttempts <= maxReconnectAttempts

\* C36 witness: a chain of failed reconnects has counted up to the maximum
\* by itself (no disconnect() has run) and has given up.
C36_Witness ==
    /\ reconnectAttempts = maxReconnectAttempts
    /\ ~manualClosed
    /\ ws = DeadSock /\ timers = {}

\* C37: a telephony query that fails reads as idle (0), so the first failed
\* query of the poll callback or of the processing loop during an active
\* call (the platform still reports 2) takes the call-end path: the running
\* session is torn down.
C37_FailedPollTearsDown ==
    [][/\ tel = 2 /\ ~faults /\ faults'
       /\ (loopPc' = loopPc \/ loopPc = "sleep")
       /\ isProcessingRef
       => ~isProcessingRef' \/ loopPc' = "cleanStop"]_vars

\* C37 witness: the call is still active on the platform, a query has failed
\* and the session that was started has been torn down.
C37_Witness ==
    /\ tel = 2 /\ faults /\ starts > 0 /\ teardowns > 0
    /\ ~isProcessingRef /\ callState = "idle"
    /\ loopPc = "none" /\ bTdPc = "none"

\* C38: sendAudioChunk called while the manager is not connected or holds no
\* session id transmits nothing and does not queue the chunk; called by the
\* application it leaves every field of the manager as it was; and a chunk
\* that was dropped is never transmitted later.
C38_DroppedWhenNotConnected ==
    /\ [][/\ Len(handed') > Len(handed)
           /\ (~isConnected \/ wsSessionId = NoSid)
           => LET h == handed'[Len(handed')]
              IN  /\ ~h.tx
                  /\ \A i \in 1..Len(audioQueue') : audioQueue'[i] # h.chunk
                  /\ h.via = "direct" =>
                        UNCHANGED <<ws, socks, wsSessionId, isConnected,
                                    reconnectAttempts, timers, audioQueue,
                                    isProcessing, queueTimers>>]_vars
    /\ [](\A i, j \in 1..Len(handed) :
             handed[i].chunk = handed[j].chunk /\ ~handed[i].tx
             => ~handed[j].tx)

\* C38 witness: a chunk given to sendAudioChunk by the application was
\* dropped, and a later chunk was transmitted.
C38_Witness ==
    \E i, j \in 1..Len(handed) :
        /\ i < j
        /\ handed[i].via = "direct" /\ ~handed[i].tx
        /\ handed[j].tx

\* C39: the chunks given to startAudioStream reach sendAudioChunk in the
\* order they were enqueued and each at most once, and a chunk enqueued
\* before disconnect() ran is not handed over after it.
C39_QueueOrder ==
    /\ [](\A i, j \in 1..Len(handed) :
             i < j /\ handed[i].via = "queue" /\ handed[j].via = "queue"
             => handed[i].chunk < handed[j].chunk)
    /\ [][/\ Len(handed') > Len(handed)
          /\ handed'[Len(handed')].via = "queue"
          => handed'[Len(handed')].chunk > cutoff]_vars

\* C39 witness: chunk 1 was handed over, chunk 2 was waiting when disconnect()
\* ran, and chunks 3 and 4, streamed afterwards, were handed over in order.
C39_Witness ==
    /\ cutoff = 2
    /\ Len(handed) = 3
    /\ \A i \in 1..3 : handed[i].via = "queue"
    /\ handed[1].chunk = 1 /\ handed[2].chunk = 3 /\ handed[3].chunk = 4

\* C40: the LLM context history never holds more than 10 messages, whatever
\* the sequence of generateResponse calls.
C40_LlmHistoryBounded == Len(conversationHistory) <= LlmHistoryLimit
====
